---- MODULE Spec2Model ----
(***************************************************************************)
(* Model of the transactional persistence core: the execution status       *)
(* machine, the execution entities, the generic repository with            *)
(* optimistic locking, the Unit of Work with its identity map and the      *)
(* Event Bus.                                                              *)
(*                                                                         *)
(* The relational store is PostgreSQL at its default isolation level       *)
(* (READ COMMITTED): every statement of a session reads the committed rows *)
(* overlaid with the session's own uncommitted writes, a write to a row    *)
(* that another session has written and not yet committed blocks, and a    *)
(* commit publishes the session's writes atomically.  The SQLAlchemy       *)
(* session holds loaded models only weakly, so a model read in one         *)
(* repository call is gone when the call returns and Session.get() in the  *)
(* next call reads the store again.                                        *)
(***************************************************************************)
EXTENDS Integers, Sequences, FiniteSets, TLC

(* ------------------------------ bounds --------------------------------- *)
NUoW == 2
NIds == 2
NObj == 2
MaxEnters == 2
MaxSteps == 8
MaxStepsOCC == 10
MaxVersion == 3
MaxEvents == 2
MaxAttempts == 2
NAutomations == 2
NHistory == 2
NItemExecutions == 2
MaxWorkers == 2

UoWs == 1..NUoW
Ids == 1..NIds
Objs == 1..NObj
HistoryIds == 1..NHistory
ItemExecutionIds == 1..NItemExecutions

(* ----------------------- execution status machine ---------------------- *)
ExecutionStatus ==
    {"PENDING", "PROCESSING", "COMPLETED", "FAILED", "CANCELLED", "SKIPPED", "RETRYING"}

valid_transitions ==
    [st \in ExecutionStatus |->
        CASE st = "PENDING"    -> {"PROCESSING", "CANCELLED", "SKIPPED"}
          [] st = "PROCESSING" -> {"COMPLETED", "FAILED", "RETRYING", "CANCELLED"}
          [] st = "RETRYING"   -> {"PROCESSING", "FAILED", "CANCELLED"}
          [] st = "COMPLETED"  -> {}
          [] st = "FAILED"     -> {"PENDING", "RETRYING"}
          [] st = "CANCELLED"  -> {}
          [] st = "SKIPPED"    -> {}]

(* a status check that lets every transition through *)
any_transition(from, to) == TRUE

can_transition_to(from, to) == to \in valid_transitions[from]

is_finished(st) == st \in {"COMPLETED", "FAILED", "CANCELLED", "SKIPPED"}

(* --------------------------- domain entities --------------------------- *)
(* Timestamps are modelled by whether they are set; messages by a small    *)
(* number, 0 standing for None.                                            *)
NoError == [raised |-> FALSE, entity_name |-> "", entity_id |-> 0,
            current_state |-> "", operation |-> ""]

InvalidStateError(entity_name, entity_id, current_state, operation) ==
    [raised |-> TRUE, entity_name |-> entity_name, entity_id |-> entity_id,
     current_state |-> current_state, operation |-> operation]

Returned(e) == [ent |-> e, error |-> NoError]
Raised(e, err) == [ent |-> e, error |-> err]

DomainEvent(type, seq, entity_id) == [type |-> type, seq |-> seq, entity_id |-> entity_id]

(* RunCompleted / RunFailed / RunCancelled: run_id and automation_id of the Run *)
RunEvent(type, seq, e) ==
    [type |-> type, seq |-> seq, entity_id |-> e.id, automation_id |-> e.automation_id]

register_event(e, event) == [e EXCEPT !.events = Append(@, event)]

(* a change that leaves the version as it was *)
keep_version(e) == e

bump_version(e) == [e EXCEPT !.version = @ + 1]

deactivate(e) == bump_version([e EXCEPT !.is_active = FALSE])

Run(id) ==
    [kind |-> "Run", id |-> id, automation_id |-> 1, version |-> 1, is_active |-> TRUE,
     status |-> "PENDING", started_at |-> FALSE, finished_at |-> FALSE,
     error_summary |-> 0, cancellation_reason |-> 0, events |-> <<>>]

Run_start(e) ==
    IF ~can_transition_to(e.status, "PROCESSING")
    THEN Raised(e, InvalidStateError("Run", e.id, e.status, "start"))
    ELSE Returned(bump_version([e EXCEPT !.status = "PROCESSING", !.started_at = TRUE]))

(* a completion that announces nothing *)
Run_complete_silently(e, seq) ==
    IF ~can_transition_to(e.status, "COMPLETED")
    THEN Raised(e, InvalidStateError("Run", e.id, e.status, "complete"))
    ELSE Returned(bump_version([e EXCEPT !.status = "COMPLETED", !.finished_at = TRUE]))

Run_complete(e, seq) ==
    IF ~can_transition_to(e.status, "COMPLETED")
    THEN Raised(e, InvalidStateError("Run", e.id, e.status, "complete"))
    ELSE Returned(register_event(
            bump_version([e EXCEPT !.status = "COMPLETED", !.finished_at = TRUE]),
            RunEvent("RunCompleted", seq, e)))

Run_fail(e, error_summary, seq) ==
    IF ~can_transition_to(e.status, "FAILED")
    THEN Raised(e, InvalidStateError("Run", e.id, e.status, "fail"))
    ELSE Returned(register_event(
            bump_version([e EXCEPT !.status = "FAILED", !.error_summary = error_summary,
                                   !.finished_at = TRUE]),
            RunEvent("RunFailed", seq, e)))

Run_cancel(e, reason, seq) ==
    IF ~can_transition_to(e.status, "CANCELLED")
    THEN Raised(e, InvalidStateError("Run", e.id, e.status, "cancel"))
    ELSE Returned(register_event(
            bump_version([e EXCEPT !.status = "CANCELLED", !.cancellation_reason = reason,
                                   !.finished_at = TRUE]),
            RunEvent("RunCancelled", seq, e)))

RunOps == {"start", "complete", "fail", "cancel"}

RunCall(e, op, seq) ==
    CASE op = "start"    -> Run_start(e)
      [] op = "complete" -> Run_complete(e, seq)
      [] op = "fail"     -> Run_fail(e, 1, seq)
      [] op = "cancel"   -> Run_cancel(e, 1, seq)

BatchExecution(id, status) ==
    [kind |-> "BatchExecution", id |-> id, version |-> 1, is_active |-> TRUE,
     status |-> status, started_at |-> FALSE, finished_at |-> FALSE, events |-> <<>>]

BatchExecution_start(e) ==
    IF ~can_transition_to(e.status, "PROCESSING")
    THEN Raised(e, InvalidStateError("BatchExecution", e.id, e.status, "start"))
    ELSE Returned(bump_version([e EXCEPT !.status = "PROCESSING", !.started_at = TRUE]))

BatchExecution_complete(e) ==
    IF ~can_transition_to(e.status, "COMPLETED")
    THEN Raised(e, InvalidStateError("BatchExecution", e.id, e.status, "complete"))
    ELSE Returned(bump_version([e EXCEPT !.status = "COMPLETED", !.finished_at = TRUE]))

BatchExecution_fail(e, seq) ==
    IF ~can_transition_to(e.status, "FAILED")
    THEN Raised(e, InvalidStateError("BatchExecution", e.id, e.status, "fail"))
    ELSE Returned(register_event(
            bump_version([e EXCEPT !.status = "FAILED", !.finished_at = TRUE]),
            DomainEvent("BatchExecutionFailed", seq, e.id)))

(* max_attempts = -1 stands for None *)
ItemExecution(id, status, attempt_count, max_attempts) ==
    [kind |-> "ItemExecution", id |-> id, version |-> 1, is_active |-> TRUE,
     status |-> status, started_at |-> FALSE, finished_at |-> FALSE,
     error_message |-> 0, result_payload |-> 0,
     attempt_count |-> attempt_count, max_attempts |-> max_attempts, events |-> <<>>]

(* a start that neither counts the attempt nor looks at the limit *)
ItemExecution_start_uncounted(e) ==
    IF ~can_transition_to(e.status, "PROCESSING")
    THEN Raised(e, InvalidStateError("ItemExecution", e.id, e.status, "start"))
    ELSE Returned(bump_version([e EXCEPT !.status = "PROCESSING", !.started_at = TRUE]))

(* a start that counts the attempt but never looks at the limit *)
ItemExecution_start_unlimited(e) ==
    IF ~can_transition_to(e.status, "PROCESSING")
    THEN Raised(e, InvalidStateError("ItemExecution", e.id, e.status, "start"))
    ELSE Returned(bump_version([e EXCEPT !.status = "PROCESSING", !.started_at = TRUE,
                                         !.attempt_count = @ + 1]))

ItemExecution_start(e) ==
    IF e.max_attempts # -1 /\ e.attempt_count >= e.max_attempts
    THEN Raised(e, InvalidStateError("ItemExecution", e.id, e.status,
                                     "start (max attempts already reached)"))
    ELSE IF ~can_transition_to(e.status, "PROCESSING")
    THEN Raised(e, InvalidStateError("ItemExecution", e.id, e.status, "start"))
    ELSE Returned(bump_version([e EXCEPT !.status = "PROCESSING", !.started_at = TRUE,
                                         !.attempt_count = @ + 1]))

ItemExecution_complete(e, result_payload) ==
    IF ~can_transition_to(e.status, "COMPLETED")
    THEN Raised(e, InvalidStateError("ItemExecution", e.id, e.status, "complete"))
    ELSE Returned(bump_version([e EXCEPT !.status = "COMPLETED",
                                         !.result_payload = result_payload,
                                         !.finished_at = TRUE]))

(* a failure that never asks for a retry *)
ItemExecution_fail_for_good(e, error_message, seq) ==
    LET noted == [e EXCEPT !.error_message = error_message]
    IN IF ~can_transition_to(e.status, "FAILED")
       THEN Raised(noted, InvalidStateError("ItemExecution", e.id, e.status,
                                            "transition to FAILED"))
       ELSE Returned(register_event(
               bump_version([noted EXCEPT !.status = "FAILED", !.finished_at = TRUE]),
               DomainEvent("ItemExecutionFailed", seq, e.id)))

(* error_message is assigned before the transition is checked *)
ItemExecution_fail(e, error_message, seq) ==
    LET noted == [e EXCEPT !.error_message = error_message]
        target_status == IF e.max_attempts # -1 /\ e.attempt_count < e.max_attempts
                         THEN "RETRYING" ELSE "FAILED"
    IN IF ~can_transition_to(e.status, target_status)
       THEN Raised(noted, InvalidStateError("ItemExecution", e.id, e.status,
                          IF target_status = "RETRYING" THEN "transition to RETRYING"
                                                        ELSE "transition to FAILED"))
       ELSE Returned(register_event(
               bump_version([noted EXCEPT !.status = target_status,
                                          !.finished_at = (@ \/ target_status = "FAILED")]),
               DomainEvent("ItemExecutionFailed", seq, e.id)))

(* an item that may always be retried *)
always_retry(e) == TRUE

ItemExecution_can_retry(e) == e.max_attempts # -1 /\ e.attempt_count < e.max_attempts

(* duration_seconds is modelled by whether it is set *)
OrchestrationInstance(id, status) ==
    [kind |-> "OrchestrationInstance", id |-> id, version |-> 1, is_active |-> TRUE,
     status |-> status, started_at |-> FALSE, finished_at |-> FALSE,
     duration_seconds |-> FALSE, events |-> <<>>]

OrchestrationInstance_start(e) ==
    IF e.status # "PENDING"
    THEN Raised(e, InvalidStateError("OrchestrationInstance", e.id, e.status, "start"))
    ELSE Returned(bump_version([e EXCEPT !.status = "PROCESSING", !.started_at = TRUE]))

OrchestrationInstance_complete(e) ==
    IF e.status # "PROCESSING"
    THEN Raised(e, InvalidStateError("OrchestrationInstance", e.id, e.status, "complete"))
    ELSE Returned(bump_version([e EXCEPT !.status = "COMPLETED", !.finished_at = TRUE,
                                         !.duration_seconds = (@ \/ e.started_at)]))

(* a failure accepted in every status *)
OrchestrationInstance_fail_anytime(e) ==
    Returned(bump_version([e EXCEPT !.status = "FAILED", !.finished_at = TRUE]))

OrchestrationInstance_fail(e) ==
    IF e.status # "PROCESSING"
    THEN Raised(e, InvalidStateError("OrchestrationInstance", e.id, e.status, "fail"))
    ELSE Returned(bump_version([e EXCEPT !.status = "FAILED", !.finished_at = TRUE]))

(* the methods each entity class has *)
Methods(kind) == IF kind = "Run" THEN RunOps ELSE {"start", "complete", "fail"}

BatchExecutionCall(e, op, seq) ==
    CASE op = "start"    -> BatchExecution_start(e)
      [] op = "complete" -> BatchExecution_complete(e)
      [] op = "fail"     -> BatchExecution_fail(e, seq)

ItemExecutionCall(e, op, seq) ==
    CASE op = "start"    -> ItemExecution_start(e)
      [] op = "complete" -> ItemExecution_complete(e, 1)
      [] op = "fail"     -> ItemExecution_fail(e, 1, seq)

OrchestrationInstanceCall(e, op) ==
    CASE op = "start"    -> OrchestrationInstance_start(e)
      [] op = "complete" -> OrchestrationInstance_complete(e)
      [] op = "fail"     -> OrchestrationInstance_fail(e)

Call(e, op, seq) ==
    CASE e.kind = "Run"                   -> RunCall(e, op, seq)
      [] e.kind = "BatchExecution"        -> BatchExecutionCall(e, op, seq)
      [] e.kind = "ItemExecution"         -> ItemExecutionCall(e, op, seq)
      [] e.kind = "OrchestrationInstance" -> OrchestrationInstanceCall(e, op)

(* ------------------------------ the store ------------------------------ *)
(* Columns of the run table that the repository reads and writes.          *)
Columns == {"version", "is_active", "status", "started_at", "finished_at",
            "error_summary", "cancellation_reason"}

NoRow == [exists |-> FALSE, automation_id |-> 0, version |-> 0, is_active |-> FALSE, status |-> "PENDING",
          started_at |-> FALSE, finished_at |-> FALSE,
          error_summary |-> 0, cancellation_reason |-> 0]

NoWrite == [touched |-> FALSE, row |-> NoRow]

to_model(e) ==
    [exists |-> TRUE, automation_id |-> e.automation_id,
     version |-> e.version, is_active |-> e.is_active,
     status |-> e.status, started_at |-> e.started_at, finished_at |-> e.finished_at,
     error_summary |-> e.error_summary, cancellation_reason |-> e.cancellation_reason]

to_entity(model, id) ==
    [kind |-> "Run", id |-> id, automation_id |-> model.automation_id,
     version |-> model.version, is_active |-> model.is_active,
     status |-> model.status, started_at |-> model.started_at,
     finished_at |-> model.finished_at, error_summary |-> model.error_summary,
     cancellation_reason |-> model.cancellation_reason, events |-> <<>>]

(* a merge that leaves the entity as the caller had it *)
keep_entity(e, model) == e

update_entity_from_model(e, model) ==
    [e EXCEPT !.automation_id = model.automation_id,
              !.version = model.version, !.is_active = model.is_active,
              !.status = model.status, !.started_at = model.started_at,
              !.finished_at = model.finished_at, !.error_summary = model.error_summary,
              !.cancellation_reason = model.cancellation_reason]

(* ------------------------------- state --------------------------------- *)
VARIABLES
    rows,               \* committed rows of the run table, by id
    tx,                 \* per session: its uncommitted writes, by id
    session,            \* per Unit of Work: whether self.session is set
    repositories,       \* per Unit of Work: whether the repository handles are set
    identity_map,       \* per Unit of Work: id -> tracked instance (0: none)
    tracked_entities,   \* per Unit of Work: insertion-ordered (id, instance) entries
    original_versions,  \* per repository: id -> version baseline (0: absent)
    pending_update,     \* per Unit of Work: update() between its read and its write
    heap,               \* entity instances held by the callers
    next_seq,           \* registration number of the next domain event
    dispatched,         \* events handed to EventBus.dispatch, in order
    handled,            \* handler invocations, in order
    event_bus,          \* the EventBus: its mode, its handlers' behaviour, its executor
    last,               \* the last call and its outcome
    loaded,             \* history: version of the row a scope last read from or wrote to the store
    written,            \* history: rows a scope's repositories wrote since its transaction began
    ever_tracked,       \* history: instances registered since the transaction began
    discarded,          \* history: events that were pending on tracked entities at a rollback
    enters,             \* history: number of scopes opened so far
    steps,              \* history: operations performed under a step budget
    entity,             \* an execution entity on its own
    item_state_history, \* the item_state_history table, its parent rows and its repository
    call,               \* the last method called on it and what it raised
    trail               \* history: the entity as constructed and the calls that succeeded

vars == <<rows, tx, session, repositories, identity_map, tracked_entities,
          original_versions, pending_update, heap, next_seq, dispatched, handled,
          event_bus, last, loaded, written, ever_tracked, discarded, enters, steps, entity, call,
          trail, item_state_history>>

store_vars == <<rows, tx>>
bus_vars == <<dispatched, handled, event_bus>>
uow_vars == <<session, repositories, identity_map, tracked_entities>>
history_vars == <<loaded, written, ever_tracked, discarded, enters>>
scope_vars == <<store_vars, uow_vars, original_versions, pending_update, heap, next_seq,
                bus_vars, last, history_vars, item_state_history>>
entity_vars == <<entity, call, trail>>

(* ItemStateHistoryModel: the columns that describe the transition *)
NoRecord == [exists |-> FALSE, item_execution_id |-> 0,
             previous_status |-> "PENDING", new_status |-> "PENDING"]

NoRecordWrite == [touched |-> FALSE, row |-> NoRecord]

(* ItemStateHistory(item_execution_id=..., new_status=..., previous_status=...) *)
ItemStateHistory(id, item_execution_id, previous_status, new_status) ==
    [id |-> id, item_execution_id |-> item_execution_id,
     previous_status |-> previous_status, new_status |-> new_status]

ItemStateHistory_to_model(e) ==
    [exists |-> TRUE, item_execution_id |-> e.item_execution_id,
     previous_status |-> e.previous_status, new_status |-> e.new_status]

FreeObj == [alloc |-> FALSE, owner |-> 0, ent |-> Run(0)]

NoPending == [active |-> FALSE, obj |-> 0, id |-> 0, expected_version |-> 0,
              fields |-> {}, values |-> NoRow]

NoOutcome == [op |-> "init", uow |-> 0, id |-> 0, ret |-> 0, error |-> "",
              expected_version |-> 0, actual_version |-> 0, committed |-> FALSE,
              soft |-> FALSE, include_soft_deleted |-> FALSE, found |-> <<>>,
              via |-> "", raised |-> FALSE]

Outcome(op, s, id, ret) == [NoOutcome EXCEPT !.op = op, !.uow = s, !.id = id, !.ret = ret]

Failure(op, s, id, error, expected, actual) ==
    [NoOutcome EXCEPT !.op = op, !.uow = s, !.id = id, !.error = error,
                      !.expected_version = expected, !.actual_version = actual]

(* What a statement of session s reads for row id. *)
View(s, id) == IF tx[s][id].touched THEN tx[s][id].row ELSE rows[id]

(* Another session holds an uncommitted write of the row: a write blocks. *)
LockedByOther(s, id) == \E t \in UoWs \ {s} : tx[t][id].touched

Write(s, id, row) == [tx EXCEPT ![s][id] = [touched |-> TRUE, row |-> row]]

session_rollback(s) == [tx EXCEPT ![s] = [i \in Ids |-> NoWrite]]

session_commit(s) == [i \in Ids |-> IF tx[s][i].touched THEN tx[s][i].row ELSE rows[i]]

FreeObjs == {o \in Objs : ~heap[o].alloc}
NewObj == CHOOSE o \in FreeObjs : \A p \in FreeObjs : o <= p

FreshIds == {i \in Ids : /\ ~rows[i].exists
                         /\ \A s \in UoWs : ~tx[s][i].touched
                         /\ \A o \in Objs : heap[o].alloc => heap[o].ent.id # i}

InitStore ==
    /\ rows = [i \in Ids |-> IF i = 1 THEN to_model(Run(1)) ELSE NoRow]
    /\ tx = [s \in UoWs |-> [i \in Ids |-> NoWrite]]
    /\ session = [s \in UoWs |-> FALSE]
    /\ repositories = [s \in UoWs |-> FALSE]
    /\ identity_map = [s \in UoWs |-> [i \in Ids |-> 0]]
    /\ tracked_entities = [s \in UoWs |-> <<>>]
    /\ original_versions = [s \in UoWs |-> [i \in Ids |-> 0]]
    /\ pending_update = [s \in UoWs |-> NoPending]
    /\ heap = [o \in Objs |-> FreeObj]
    /\ next_seq = 1
    /\ dispatched = <<>>
    /\ handled = <<>>
    /\ last = NoOutcome
    /\ loaded = [s \in UoWs |-> [i \in Ids |-> 0]]
    /\ written = [s \in UoWs |-> [i \in Ids |-> NoWrite]]
    /\ ever_tracked = [s \in UoWs |-> {}]
    /\ discarded = {}
    /\ enters = 0
    /\ steps = 0
    /\ item_state_history =
          [rows |-> [h \in HistoryIds |-> NoRecord],
           tx |-> [s \in UoWs |-> [h \in HistoryIds |-> NoRecordWrite]],
           item_execution |-> ItemExecutionIds,
           item_execution_deleted |-> [s \in UoWs |-> {}],
           identity_map |-> [s \in UoWs |-> {}]]

Handlers == {"h1", "h2"}

(* EventBus(use_async, max_workers): the executor exists in asynchronous mode
   only; raising is the set of registered handlers that raise when called *)
EventBus(use_async, raising) ==
    [use_async |-> use_async, raising |-> raising,
     queue |-> <<>>,       \* executor: work submitted and not yet taken by a worker
     running |-> {},       \* executor: work a worker thread is executing
     futures |-> {},       \* self._futures
     failed |-> {},        \* futures that hold the exception their handler raised
     cancelled |-> {},     \* futures cancelled before a worker took them
     submitted |-> {},     \* history: all the work ever accepted by submit()
     shutdown |-> "no"]    \* the executor: "no", "waiting" (shutdown(wait=True)
                           \* has not returned yet) or "done"

(* a scope whose bus is synchronous and whose handlers return *)
InitScope == InitStore /\ event_bus = EventBus(FALSE, {})

NoCall == [op |-> "", before |-> "", error |-> NoError]

Trail(e) == [created |-> e, ops |-> <<>>]

Init ==
    /\ InitScope
    /\ entity = Run(1)
    /\ call = NoCall
    /\ trail = Trail(Run(1))

(* ---------------------------- Unit of Work ----------------------------- *)
HasKey(entries, id) == \E k \in DOMAIN entries : entries[k].id = id

(* dict assignment: an existing key keeps its position, a new key is appended *)
DictPut(entries, id, o) ==
    IF HasKey(entries, id)
    THEN [k \in DOMAIN entries |->
            IF entries[k].id = id THEN [id |-> id, obj |-> o] ELSE entries[k]]
    ELSE Append(entries, [id |-> id, obj |-> o])

DictPop(entries, id) == SelectSeq(entries, LAMBDA en : en.id # id)

has_entity(s, id) == identity_map[s][id] # 0
get_entity(s, id) == identity_map[s][id]

(* register_entity: identity map and tracked entities, both keyed by the id *)
register_entity(s, o, id) ==
    /\ identity_map' = [identity_map EXCEPT ![s][id] = o]
    /\ tracked_entities' = [tracked_entities EXCEPT ![s] = DictPut(@, id, o)]
    /\ ever_tracked' = [ever_tracked EXCEPT ![s] = @ \cup {o}]

(* a hard delete that removes the row and leaves the scope's maps alone *)
remove_row_only(s, id) == UNCHANGED <<identity_map, tracked_entities>>

unregister_entity(s, id) ==
    /\ identity_map' = [identity_map EXCEPT ![s][id] = 0]
    /\ tracked_entities' = [tracked_entities EXCEPT ![s] = DictPop(@, id)]

registry_vars == <<identity_map, tracked_entities, ever_tracked>>

(* __enter__: a new session and new repositories (with empty baselines) *)
Enter(s) ==
    /\ ~session[s]
    /\ enters < MaxEnters
    /\ enters' = enters + 1
    /\ session' = [session EXCEPT ![s] = TRUE]
    /\ repositories' = [repositories EXCEPT ![s] = TRUE]
    /\ original_versions' = [original_versions EXCEPT ![s] = [i \in Ids |-> 0]]
    /\ loaded' = [loaded EXCEPT ![s] = [i \in Ids |-> 0]]
    /\ last' = Outcome("call", s, 0, 0)
    /\ UNCHANGED <<store_vars, registry_vars, pending_update, heap, next_seq, bus_vars,
                   written, discarded>>

(* ------------------------- the caller's entities ----------------------- *)
Idle(s) == ~pending_update[s].active

Held(s, o) == heap[o].alloc /\ heap[o].owner = s

(* Run(automation_id=...): a new instance with a new id *)
Construct(s) ==
    /\ Idle(s)
    /\ FreeObjs # {} /\ FreshIds # {}
    /\ LET id == CHOOSE i \in FreshIds : \A j \in FreshIds : i <= j
       IN /\ heap' = [heap EXCEPT ![NewObj] = [alloc |-> TRUE, owner |-> s, ent |-> Run(id)]]
          /\ last' = Outcome("call", s, 0, 0)
    /\ UNCHANGED <<store_vars, uow_vars, original_versions, pending_update, next_seq,
                   bus_vars, history_vars>>

(* start / complete / fail / cancel on an instance the caller holds *)
EntityCall(s, o, op) ==
    /\ Idle(s) /\ Held(s, o)
    /\ LET e == heap[o].ent
           r == RunCall(e, op, next_seq)
       IN /\ r.error.raised \/ e.version < MaxVersion
          /\ r.error.raised \/ op = "start" \/ next_seq <= MaxEvents
          /\ heap' = [heap EXCEPT ![o].ent = r.ent]
          /\ next_seq' = next_seq + Len(r.ent.events) - Len(e.events)
          /\ last' = [Outcome("call", s, 0, 0) EXCEPT
                         !.error = IF r.error.raised THEN "InvalidStateError" ELSE ""]
    /\ UNCHANGED <<store_vars, uow_vars, original_versions, pending_update, bus_vars,
                   history_vars>>

Deactivate(s, o) ==
    /\ Idle(s) /\ Held(s, o)
    /\ heap[o].ent.version < MaxVersion
    /\ heap' = [heap EXCEPT ![o].ent = deactivate(@)]
    /\ last' = Outcome("call", s, 0, 0)
    /\ UNCHANGED <<store_vars, uow_vars, original_versions, pending_update, next_seq,
                   bus_vars, history_vars>>

(* run.automation_id = a, assigned by the caller *)
Reassign(s, o, a) ==
    /\ Idle(s) /\ Held(s, o)
    /\ heap[o].ent.automation_id # a
    /\ heap' = [heap EXCEPT ![o].ent.automation_id = a]
    /\ last' = Outcome("call", s, 0, 0)
    /\ UNCHANGED <<store_vars, uow_vars, original_versions, pending_update, next_seq,
                   bus_vars, history_vars>>

(* ------------------------------ repository ----------------------------- *)
Usable(s) == Idle(s) /\ session[s] /\ repositories[s]

(* RunRepository.updatable_fields, correlation_id left out *)
updatable_fields == {"cancellation_reason", "error_summary", "status",
                     "started_at", "finished_at", "is_active"}

(* a diff that looks at the status column only *)
changed_status_only(e, existing_model, same_time) ==
    {f \in {"status"} : to_model(e)[f] # existing_model[f]}
        \cup (IF same_time THEN {} ELSE {"updated_at"})

(* the changed columns; updated_at is among them unless touch() stamped the
   value the row already holds *)
get_changed_data(e, existing_model, same_time) ==
    {f \in updatable_fields : to_model(e)[f] # existing_model[f]}
        \cup (IF same_time THEN {} ELSE {"updated_at"})

(* get(): the baseline recorded when the identity map already holds the entity *)
cached_baseline(e) == e.version

(* a version check that never finds a mismatch *)
never_mismatch(stored_version, expected_version) == FALSE

(* update(): the check of the stored version against the baseline before the write *)
version_mismatch(stored_version, expected_version) == stored_version # expected_version

(* a WHERE clause on the id alone *)
where_id_only(model, expected_version) == model.exists

(* the WHERE clause of the conditional UPDATE / DELETE *)
where_version(model, expected_version) ==
    model.exists /\ (expected_version = 0 \/ model.version = expected_version)

(* a SET clause that stores the version the entity carries *)
apply_entity_version(model, fields, values) ==
    [f \in DOMAIN model |->
        IF f = "version" THEN values.version
        ELSE IF f \in fields THEN values[f] ELSE model[f]]

(* the SET clause of update(): the changed columns and version = version + 1 *)
apply_update(model, fields, values) ==
    [f \in DOMAIN model |->
        IF f = "version" THEN model.version + 1
        ELSE IF f \in fields THEN values[f] ELSE model[f]]

(* a soft delete that leaves the version alone *)
deactivate_only(model) == [model EXCEPT !.is_active = FALSE]

(* the SET clause of the soft delete *)
soft_delete_values(model) == [model EXCEPT !.is_active = FALSE, !.version = @ + 1]

Get(s, id, include_soft_deleted) ==
    /\ Usable(s)
    /\ IF has_entity(s, id) /\ (include_soft_deleted \/ heap[get_entity(s, id)].ent.is_active)
       THEN LET o == get_entity(s, id)
            IN /\ original_versions' =
                     [original_versions EXCEPT ![s][id] = cached_baseline(heap[o].ent)]
               /\ last' = [Outcome("get", s, id, o) EXCEPT
                              !.include_soft_deleted = include_soft_deleted]
               /\ UNCHANGED <<store_vars, uow_vars, pending_update, heap, next_seq,
                              bus_vars, history_vars>>
       ELSE LET model == View(s, id)
            IN IF model.exists /\ (include_soft_deleted \/ model.is_active)
               THEN /\ FreeObjs # {}
                    /\ heap' = [heap EXCEPT ![NewObj] =
                                  [alloc |-> TRUE, owner |-> s, ent |-> to_entity(model, id)]]
                    /\ register_entity(s, NewObj, id)
                    /\ original_versions' =
                          [original_versions EXCEPT ![s][id] = model.version]
                    /\ loaded' = [loaded EXCEPT ![s][id] = model.version]
                    /\ last' = [Outcome("get", s, id, NewObj) EXCEPT
                                   !.include_soft_deleted = include_soft_deleted]
                    /\ UNCHANGED <<store_vars, session, repositories, pending_update,
                                   next_seq, bus_vars, written, discarded, enters>>
               ELSE /\ last' = [Outcome("get", s, id, 0) EXCEPT
                                   !.include_soft_deleted = include_soft_deleted]
                    /\ UNCHANGED <<store_vars, uow_vars, original_versions, pending_update,
                                   heap, next_seq, bus_vars, history_vars>>

Create(s, o) ==
    /\ Usable(s) /\ Held(s, o)
    /\ LET e == heap[o].ent
           id == e.id
       IN /\ ~LockedByOther(s, id)
          /\ IF View(s, id).exists
             THEN \* IntegrityError at flush: db.rollback(), DuplicateEntityError
                  /\ tx' = session_rollback(s)
                  /\ last' = Failure("create", s, id, "DuplicateEntityError", 0, 0)
                  /\ UNCHANGED <<rows, uow_vars, original_versions, pending_update, heap,
                                 next_seq, bus_vars, history_vars>>
             ELSE /\ tx' = Write(s, id, to_model(e))
                  /\ original_versions' = [original_versions EXCEPT ![s][id] = e.version]
                  /\ register_entity(s, o, id)
                  /\ loaded' = [loaded EXCEPT ![s][id] = e.version]
                  /\ written' = [written EXCEPT ![s][id] =
                                    [touched |-> TRUE, row |-> to_model(e)]]
                  /\ last' = Outcome("create", s, id, o)
                  /\ UNCHANGED <<rows, session, repositories, pending_update, heap,
                                 next_seq, bus_vars, discarded, enters>>

(* an update() that takes every baseline as captured *)
baseline_assumed(expected_version) == FALSE

(* update(): self._original_versions.get(id) is None *)
baseline_missing(expected_version) == expected_version = 0

(* update(), up to the point where the conditional UPDATE is sent *)
UpdateRead(s, o, same_time) ==
    /\ Usable(s) /\ Held(s, o)
    /\ LET e == heap[o].ent
           id == e.id
           expected_version == original_versions[s][id]
           existing_model == View(s, id)
           update_data == get_changed_data(e, existing_model, same_time)
       IN /\ IF baseline_missing(expected_version)
             THEN /\ last' = Failure("update", s, id, "ConcurrencyError", -1, e.version)
                  /\ UNCHANGED pending_update
             ELSE IF ~existing_model.exists
             THEN /\ last' = Failure("update", s, id, "EntityNotFoundError", 0, 0)
                  /\ UNCHANGED pending_update
             ELSE IF version_mismatch(existing_model.version, expected_version)
             THEN /\ last' = Failure("update", s, id, "ConcurrencyError",
                                     expected_version, existing_model.version)
                  /\ UNCHANGED pending_update
             ELSE IF update_data = {} /\ e.version = expected_version
             THEN /\ last' = Outcome("update", s, id, o)
                  /\ UNCHANGED pending_update
             ELSE /\ pending_update' = [pending_update EXCEPT ![s] =
                        [active |-> TRUE, obj |-> o, id |-> id,
                         expected_version |-> expected_version,
                         fields |-> update_data, values |-> to_model(e)]]
                  /\ last' = Outcome("update_read", s, id, o)
    /\ UNCHANGED <<store_vars, uow_vars, original_versions, heap, next_seq, bus_vars,
                   history_vars>>

(* update(), from the conditional UPDATE to its return; when no row matched,
   Session.get() returns the model that update() still holds, with the
   version it was read at, or that version + 1 when the ORM applied the SET
   values to the models of the session *)
UpdateWrite(s, synchronized) ==
    /\ pending_update[s].active
    /\ LET p == pending_update[s]
           id == p.id
           model == View(s, id)
       IN /\ ~LockedByOther(s, id)
          /\ pending_update' = [pending_update EXCEPT ![s] = NoPending]
          /\ IF where_version(model, p.expected_version)
             THEN LET updated_model == apply_update(model, p.fields, p.values)
                      tracked_entity == get_entity(s, id)
                      target == IF tracked_entity # 0 THEN tracked_entity ELSE NewObj
                  IN /\ model.version < MaxVersion
                     /\ tracked_entity = 0 => FreeObjs # {}
                     /\ tx' = Write(s, id, updated_model)
                     /\ heap' = [heap EXCEPT ![target] =
                            IF tracked_entity # 0
                            THEN [@ EXCEPT !.ent = update_entity_from_model(@, updated_model)]
                            ELSE [alloc |-> TRUE, owner |-> s,
                                  ent |-> to_entity(updated_model, id)]]
                     /\ register_entity(s, target, id)
                     /\ original_versions' =
                           [original_versions EXCEPT ![s][id] = updated_model.version]
                     /\ loaded' = [loaded EXCEPT ![s][id] = updated_model.version]
                     /\ written' = [written EXCEPT ![s][id] =
                                       [touched |-> TRUE, row |-> updated_model]]
                     /\ last' = Outcome("update", s, id, target)
                     /\ UNCHANGED <<rows, session, repositories, next_seq, bus_vars,
                                    discarded, enters>>
             ELSE /\ last' = Failure("update", s, id, "ConcurrencyError",
                                     p.expected_version,
                                     IF synchronized THEN p.expected_version + 1
                                                     ELSE p.expected_version)
                  /\ UNCHANGED <<store_vars, uow_vars, original_versions, heap, next_seq,
                                 bus_vars, history_vars>>

(* delete(id, soft, expected_version); supplied = 0 stands for no expected_version *)
Delete(s, id, soft, supplied) ==
    /\ Usable(s)
    /\ ~LockedByOther(s, id)
    /\ LET expected_version == IF supplied = 0 THEN original_versions[s][id] ELSE supplied
           model == View(s, id)
           tracked == get_entity(s, id)
       IN IF where_version(model, expected_version)
          THEN IF soft
               THEN LET updated_model == soft_delete_values(model)
                    IN /\ model.version < MaxVersion
                       /\ tx' = Write(s, id, updated_model)
                       /\ heap' = IF tracked # 0
                                  THEN [heap EXCEPT ![tracked].ent =
                                           update_entity_from_model(@, updated_model)]
                                  ELSE heap
                       /\ original_versions' = [original_versions EXCEPT ![s][id] =
                             IF tracked # 0 THEN updated_model.version ELSE 0]
                       /\ loaded' = [loaded EXCEPT ![s][id] =
                             IF tracked # 0 THEN updated_model.version ELSE 0]
                       /\ written' = [written EXCEPT ![s][id] =
                                         [touched |-> TRUE, row |-> updated_model]]
                       /\ last' = [Outcome("delete", s, id, 1) EXCEPT
                                      !.soft = soft,
                                      !.expected_version = expected_version]
                       /\ UNCHANGED <<rows, uow_vars, pending_update, next_seq, bus_vars,
                                      ever_tracked, discarded, enters>>
               ELSE /\ tx' = Write(s, id, NoRow)
                    /\ unregister_entity(s, id)
                    /\ original_versions' = [original_versions EXCEPT ![s][id] = 0]
                    /\ loaded' = [loaded EXCEPT ![s][id] = 0]
                    /\ written' = [written EXCEPT ![s][id] =
                                      [touched |-> TRUE, row |-> NoRow]]
                    /\ last' = [Outcome("delete", s, id, 1) EXCEPT
                                      !.soft = soft,
                                      !.expected_version = expected_version]
                    /\ UNCHANGED <<rows, session, repositories, pending_update, heap,
                                   next_seq, bus_vars, ever_tracked, discarded, enters>>
          ELSE /\ last' = [(IF ~model.exists
                            THEN Outcome("delete", s, id, 0)
                            ELSE Failure("delete", s, id, "ConcurrencyError",
                                         expected_version, model.version))
                           EXCEPT !.soft = soft]
               /\ UNCHANGED <<store_vars, uow_vars, original_versions, pending_update,
                              heap, next_seq, bus_vars, history_vars>>

(* the rows a query without a WHERE on the id returns *)
Matching(s, include_soft_deleted) ==
    {i \in Ids : View(s, i).exists /\ (include_soft_deleted \/ View(s, i).is_active)}

RECURSIVE Ascending(_)
Ascending(S) ==
    IF S = {} THEN <<>>
    ELSE LET m == CHOOSE i \in S : \A j \in S : i <= j
         IN <<m>> \o Ascending(S \ {m})

Reverse(q) == [k \in 1..Len(q) |-> q[Len(q) + 1 - k]]

RECURSIVE to_entity_or_update(_, _, _)
(* _to_entity_or_update for each model of a result: the tracked instance is
   returned as it is; otherwise a new entity is registered and its baseline
   recorded *)
to_entity_or_update(s, ids, st) ==
    IF ids = <<>> THEN st
    ELSE LET id == Head(ids)
             free == {o \in Objs : ~st.heap[o].alloc}
             o == CHOOSE f \in free : \A g \in free : f <= g
         IN IF st.identity_map[id] # 0
            THEN to_entity_or_update(s, Tail(ids), st)
            ELSE to_entity_or_update(s, Tail(ids),
                    [heap |-> [st.heap EXCEPT ![o] =
                                  [alloc |-> TRUE, owner |-> s,
                                   ent |-> to_entity(View(s, id), id)]],
                     identity_map |-> [st.identity_map EXCEPT ![id] = o],
                     tracked_entities |-> DictPut(st.tracked_entities, id, o),
                     ever_tracked |-> st.ever_tracked \cup {o},
                     original_versions |->
                         [st.original_versions EXCEPT ![id] = View(s, id).version],
                     loaded |-> [st.loaded EXCEPT ![id] = View(s, id).version]])

(* list(include_soft_deleted): query.all() has no ORDER BY, the rows come in
   either order *)
List(s, include_soft_deleted, reversed) ==
    /\ Usable(s)
    /\ LET matching == Matching(s, include_soft_deleted)
           models == IF reversed THEN Reverse(Ascending(matching))
                                 ELSE Ascending(matching)
           st == to_entity_or_update(s, models,
                    [heap |-> heap, identity_map |-> identity_map[s],
                     tracked_entities |-> tracked_entities[s],
                     ever_tracked |-> ever_tracked[s],
                     original_versions |-> original_versions[s],
                     loaded |-> loaded[s]])
       IN /\ Cardinality({i \in matching : ~has_entity(s, i)}) <= Cardinality(FreeObjs)
          /\ reversed => Cardinality(matching) > 1
          /\ heap' = st.heap
          /\ identity_map' = [identity_map EXCEPT ![s] = st.identity_map]
          /\ tracked_entities' = [tracked_entities EXCEPT ![s] = st.tracked_entities]
          /\ ever_tracked' = [ever_tracked EXCEPT ![s] = st.ever_tracked]
          /\ original_versions' = [original_versions EXCEPT ![s] = st.original_versions]
          /\ loaded' = [loaded EXCEPT ![s] = st.loaded]
          /\ last' = [Outcome("list", s, 0, 0) EXCEPT
                         !.include_soft_deleted = include_soft_deleted,
                         !.found = models]
    /\ UNCHANGED <<store_vars, session, repositories, pending_update, next_seq,
                   bus_vars, written, discarded, enters>>

(* count(include_soft_deleted) *)
Count(s, include_soft_deleted) ==
    /\ Usable(s)
    /\ last' = [Outcome("count", s, 0, Cardinality(Matching(s, include_soft_deleted)))
                   EXCEPT !.include_soft_deleted = include_soft_deleted]
    /\ UNCHANGED <<store_vars, uow_vars, original_versions, pending_update, heap,
                   next_seq, bus_vars, history_vars>>

(* exists(id, include_soft_deleted) *)
Exists(s, id, include_soft_deleted) ==
    /\ Usable(s)
    /\ last' = [Outcome("exists", s, id, IF id \in Matching(s, include_soft_deleted)
                                          THEN 1 ELSE 0)
                   EXCEPT !.include_soft_deleted = include_soft_deleted]
    /\ UNCHANGED <<store_vars, uow_vars, original_versions, pending_update, heap,
                   next_seq, bus_vars, history_vars>>

(* ------------------------------ Event Bus ------------------------------ *)
(* the handlers registered per event type, in registration order *)
handlers ==
    [type \in {"RunCompleted", "RunFailed", "RunCancelled"} |->
        CASE type = "RunCompleted" -> <<"h1", "h2">>
          [] type = "RunFailed"    -> <<"h1">>
          [] type = "RunCancelled" -> <<"h2">>]

(* a bus that serves the last event first, one handler each *)
reverse_dispatch(events) ==
    [k \in 1..Len(events) |->
        [event |-> events[Len(events) + 1 - k],
         handler |-> handlers[events[Len(events) + 1 - k].type][1]]]

RECURSIVE dispatch(_)
(* synchronous mode: every handler of every event, in order *)
dispatch(events) ==
    IF events = <<>> THEN <<>>
    ELSE [k \in 1..Len(handlers[Head(events).type]) |->
             [event |-> Head(events), handler |-> handlers[Head(events).type][k]]]
         \o dispatch(Tail(events))

(* a collection that stops after the first tracked entity *)
collect_first(entries, h) ==
    IF entries = <<>> THEN [events |-> <<>>, heap |-> h]
    ELSE [events |-> h[Head(entries).obj].ent.events,
          heap |-> [h EXCEPT ![Head(entries).obj].ent.events = <<>>]]

RECURSIVE collect_events(_, _)
(* pop_events() of every tracked entity, in the order of the dict *)
collect_events(entries, h) ==
    IF entries = <<>> THEN [events |-> <<>>, heap |-> h]
    ELSE LET o == Head(entries).obj
             rest == collect_events(Tail(entries), [h EXCEPT ![o].ent.events = <<>>])
         IN [events |-> h[o].ent.events \o rest.events, heap |-> rest.heap]

(* a commit that hands the events over whether or not the session committed *)
events_regardless(committed, events) == events

(* what commit() hands to the Event Bus *)
events_to_dispatch(committed, events) == IF committed THEN events ELSE <<>>

Range(f) == {f[k] : k \in DOMAIN f}

PendingEvents(s) ==
    UNION {Range(heap[en.obj].ent.events) : en \in Range(tracked_entities[s])}

(* the invocations up to and including the first one that raises *)
RECURSIVE until_raise(_, _)
until_raise(pairs, raising) ==
    IF pairs = <<>> THEN <<>>
    ELSE IF Head(pairs).handler \in raising THEN <<Head(pairs)>>
    ELSE <<Head(pairs)>> \o until_raise(Tail(pairs), raising)

(* handler(event) for every pair on the caller's thread; nothing catches
   what a handler raises *)
call_handlers(bus, pairs) ==
    [invoked |-> until_raise(pairs, bus.raising),
     error |-> IF \E k \in DOMAIN pairs : pairs[k].handler \in bus.raising
               THEN "HandlerError" ELSE "",
     bus |-> bus]

(* a submit that calls the handler at once, on the caller's thread *)
call_inline(bus, pairs) == call_handlers(bus, pairs)

(* executor.submit(handler, event) for every pair, the future appended to
   self._futures; an executor that was shut down refuses with RuntimeError *)
submit(bus, pairs) ==
    IF bus.shutdown # "no" /\ pairs # <<>>
    THEN [invoked |-> <<>>, error |-> "RuntimeError", bus |-> bus]
    ELSE [invoked |-> <<>>, error |-> "",
          bus |-> [bus EXCEPT !.queue = @ \o pairs,
                              !.futures = @ \cup Range(pairs),
                              !.submitted = @ \cup Range(pairs)]]

(* EventBus.dispatch(events): the invocations made before it returns or
   raises, the exception that leaves it, and the bus afterwards *)
EventBus_dispatch(bus, events) ==
    IF ~bus.use_async THEN call_handlers(bus, dispatch(events))
    ELSE submit(bus, dispatch(events))

(* shutdown(wait=True) returns at once *)
no_wait(bus) == TRUE

(* executor.shutdown(wait=True) returns when no work is queued or running *)
drained(bus) == bus.queue = <<>> /\ bus.running = {}

(* --------------------- commit / rollback / scopes ---------------------- *)
(* a clear that empties the tracked entities and leaves the identity map *)
clear_tracked_only(s) ==
    /\ UNCHANGED identity_map
    /\ tracked_entities' = [tracked_entities EXCEPT ![s] = <<>>]
    /\ written' = [written EXCEPT ![s] = [i \in Ids |-> NoWrite]]
    /\ ever_tracked' = [ever_tracked EXCEPT ![s] = {}]

clear_identity_map(s) ==
    /\ identity_map' = [identity_map EXCEPT ![s] = [i \in Ids |-> 0]]
    /\ tracked_entities' = [tracked_entities EXCEPT ![s] = <<>>]
    /\ written' = [written EXCEPT ![s] = [i \in Ids |-> NoWrite]]
    /\ ever_tracked' = [ever_tracked EXCEPT ![s] = {}]

(* a rollback of the session alone *)
rollback_session_only(s, close) ==
    /\ tx' = session_rollback(s)
    /\ discarded' = discarded \cup {ev.seq : ev \in PendingEvents(s)}
    /\ session' = [session EXCEPT ![s] = ~close]
    /\ UNCHANGED <<rows, original_versions, pending_update, heap, next_seq, bus_vars,
                   loaded, enters, repositories, identity_map, tracked_entities,
                   written, ever_tracked>>

(* rollback(): session.rollback(), maps cleared, repository handles unset *)
rollback(s, close) ==
    /\ tx' = session_rollback(s)
    /\ repositories' = [repositories EXCEPT ![s] = FALSE]
    /\ clear_identity_map(s)
    /\ discarded' = discarded \cup {ev.seq : ev \in PendingEvents(s)}
    /\ session' = [session EXCEPT ![s] = ~close]
    /\ UNCHANGED <<rows, original_versions, pending_update, heap, next_seq, bus_vars,
                   loaded, enters>>

(* session.commit(): the database can refuse it (ok = FALSE) unless the
   session has nothing to send: after rollback() the session holds no
   transaction and the scope no repository that could begin one *)
session_commits(s, ok) == ok \/ ~repositories[s]

(* commit() called by the caller, not by __exit__ or transaction() *)
Direct == [via |-> "", raised |-> FALSE]

(* commit(): session.commit(); on success collect and dispatch the events *)
commit(s, ok, how, close) ==
    LET collected == collect_events(tracked_entities[s], heap)
        events == events_to_dispatch(session_commits(s, ok), collected.events)
        run == EventBus_dispatch(event_bus, events)
    IN IF session_commits(s, ok)
       THEN /\ rows' = session_commit(s)
            /\ tx' = session_rollback(s)
            /\ heap' = collected.heap
            /\ dispatched' = dispatched \o events
            /\ handled' = handled \o run.invoked
            /\ event_bus' = run.bus
            /\ clear_identity_map(s)
            /\ session' = [session EXCEPT ![s] = ~close]
            \* transaction() answers an exception of commit() with rollback()
            /\ repositories' = IF run.error # "" /\ how.via = "transaction"
                               THEN [repositories EXCEPT ![s] = FALSE]
                               ELSE repositories
            /\ last' = [Outcome("commit", s, 0, 0) EXCEPT
                           !.committed = TRUE, !.error = run.error,
                           !.via = how.via, !.raised = how.raised]
            /\ UNCHANGED <<original_versions, pending_update, next_seq,
                           loaded, discarded, enters>>
       ELSE /\ tx' = session_rollback(s)
            /\ repositories' = [repositories EXCEPT ![s] = FALSE]
            /\ clear_identity_map(s)
            /\ discarded' = discarded \cup {ev.seq : ev \in PendingEvents(s)}
            /\ session' = [session EXCEPT ![s] = ~close]
            /\ dispatched' = dispatched \o events
            /\ handled' = handled \o run.invoked
            /\ event_bus' = run.bus
            /\ last' = [Failure("commit", s, 0, "CommitError", 0, 0) EXCEPT
                           !.via = how.via, !.raised = how.raised]
            /\ UNCHANGED <<rows, original_versions, pending_update, heap, next_seq,
                           loaded, enters>>

Commit(s, ok) ==
    /\ Idle(s) /\ session[s]
    /\ commit(s, ok, Direct, FALSE)

Rollback(s) ==
    /\ Idle(s) /\ session[s]
    /\ rollback(s, FALSE)
    /\ last' = Outcome("rollback", s, 0, 0)

(* __exit__: commit without an exception, rollback with one; then close() *)
Exit(s, exc, ok) ==
    /\ Idle(s) /\ session[s]
    /\ IF exc
       THEN /\ rollback(s, TRUE)
            /\ last' = [Outcome("rollback", s, 0, 0) EXCEPT
                           !.via = "__exit__", !.raised = TRUE]
       ELSE commit(s, ok, [via |-> "__exit__", raised |-> FALSE], TRUE)

(* a transaction() that commits however its block ended *)
Transaction_commit_always(s, exc, ok) ==
    /\ Idle(s) /\ session[s]
    /\ commit(s, ok, [via |-> "transaction", raised |-> exc], FALSE)

(* transaction(): commit when the block exits normally, rollback when it
   raises, and the exception of the block goes on to the caller *)
Transaction(s, exc, ok) ==
    /\ Idle(s) /\ session[s]
    /\ IF exc
       THEN /\ rollback(s, FALSE)
            /\ last' = [Outcome("rollback", s, 0, 0) EXCEPT
                           !.via = "transaction", !.raised = TRUE,
                           !.error = "BlockError"]
       ELSE commit(s, ok, [via |-> "transaction", raised |-> FALSE], FALSE)

(* ------------------- the Event Bus and its executor -------------------- *)
EventTypes == {"RunCompleted", "RunFailed", "RunCancelled"}

(* the event lists handed to dispatch() directly: one event with two
   handlers, and two events in either order of their handlers *)
EventLists ==
    {<<"RunCompleted">>, <<"RunFailed", "RunCancelled">>, <<"RunCancelled", "RunCompleted">>}

(* event_bus.dispatch(events), called with new events of the given types *)
Dispatch(types) ==
    /\ next_seq + Len(types) - 1 <= MaxEvents
    /\ LET events == [k \in DOMAIN types |-> RunEvent(types[k], next_seq + k - 1, Run(1))]
           run == EventBus_dispatch(event_bus, events)
       IN /\ dispatched' = dispatched \o events
          /\ handled' = handled \o run.invoked
          /\ event_bus' = run.bus
          /\ next_seq' = next_seq + Len(types)
          /\ last' = [Outcome("dispatch", 0, 0, 0) EXCEPT !.error = run.error]
    /\ UNCHANGED <<store_vars, uow_vars, original_versions, pending_update, heap,
                   history_vars>>

(* a worker thread takes the oldest queued work and calls the handler *)
Worker_start ==
    /\ event_bus.use_async
    /\ event_bus.queue # <<>>
    /\ Cardinality(event_bus.running) < MaxWorkers
    /\ LET task == Head(event_bus.queue)
       IN /\ event_bus' = [event_bus EXCEPT !.queue = Tail(@), !.running = @ \cup {task}]
          /\ handled' = Append(handled, task)
    /\ last' = Outcome("worker", 0, 0, 0)
    /\ UNCHANGED <<store_vars, uow_vars, original_versions, pending_update, heap,
                   next_seq, dispatched, history_vars>>

(* the handler returns or raises; what it raises is stored in the future *)
Worker_finish(task) ==
    /\ task \in event_bus.running
    /\ event_bus' = [event_bus EXCEPT
                        !.running = @ \ {task},
                        !.failed = IF task.handler \in event_bus.raising
                                   THEN @ \cup {task} ELSE @]
    /\ last' = Outcome("worker", 0, 0, 0)
    /\ UNCHANGED <<store_vars, uow_vars, original_versions, pending_update, heap,
                   next_seq, dispatched, handled, history_vars>>

(* shutdown(wait): no executor in synchronous mode.  With wait the call
   blocks until the executor is drained.  Without it the queued futures are
   cancelled one by one while the workers go on taking work: kept is the
   work a worker took before its future was reached *)
Shutdown(wait, kept) ==
    /\ event_bus.shutdown = "no"
    /\ kept \subseteq Range(event_bus.queue)
    /\ (wait \/ ~event_bus.use_async) => kept = {}
    /\ LET Keep(t) == t \in kept
       IN event_bus' =
            IF ~event_bus.use_async THEN event_bus
            ELSE IF wait THEN [event_bus EXCEPT !.shutdown = "waiting"]
            ELSE [event_bus EXCEPT !.shutdown = "done",
                                   !.queue = SelectSeq(@, Keep),
                                   !.cancelled = @ \cup (Range(event_bus.queue) \ kept),
                                   !.futures = {}]
    /\ last' = Outcome(IF ~event_bus.use_async THEN "shutdown"
                       ELSE IF wait THEN "shutdown_called" ELSE "shutdown_nowait",
                       0, 0, 0)
    /\ UNCHANGED <<store_vars, uow_vars, original_versions, pending_update, heap,
                   next_seq, dispatched, handled, history_vars>>

(* shutdown(wait=True) returns: self._futures.clear() *)
Shutdown_return ==
    /\ event_bus.shutdown = "waiting"
    /\ drained(event_bus)
    /\ event_bus' = [event_bus EXCEPT !.shutdown = "done", !.futures = {}]
    /\ last' = Outcome("shutdown", 0, 0, 0)
    /\ UNCHANGED <<store_vars, uow_vars, original_versions, pending_update, heap,
                   next_seq, dispatched, handled, history_vars>>

(* -------------------------- item state history ------------------------ *)
(* What a statement of session s reads for history record h. *)
HistoryViewOf(table, s, h) ==
    IF table.tx[s][h].touched THEN table.tx[s][h].row ELSE table.rows[h]

HistoryView(s, h) == HistoryViewOf(item_state_history, s, h)

(* Whether a statement of session s finds item execution i. *)
ItemExecutionExists(s, i) ==
    /\ i \in item_state_history.item_execution
    /\ i \notin item_state_history.item_execution_deleted[s]

HistoryLockedByOther(s, h) ==
    \E t \in UoWs \ {s} : item_state_history.tx[t][h].touched

(* session.rollback() on the history table and its parent *)
history_session_rollback(s) ==
    [item_state_history EXCEPT
        !.tx[s] = [h \in HistoryIds |-> NoRecordWrite],
        !.item_execution_deleted[s] = {}]

(* session.commit() on the history table and its parent *)
history_session_commit(s) ==
    [item_state_history EXCEPT
        !.rows = [h \in HistoryIds |-> HistoryView(s, h)],
        !.tx[s] = [h \in HistoryIds |-> NoRecordWrite],
        !.item_execution = @ \ item_state_history.item_execution_deleted[s],
        !.item_execution_deleted[s] = {}]

(* The session of a scope holds the history table too: what the step did
   to the session (commit, rollback, the rollback of a failed create) it did
   to the records the session wrote. *)
history_follows_session ==
    item_state_history' =
        IF last'.committed
        THEN [history_session_commit(last'.uow) EXCEPT !.identity_map[last'.uow] = {}]
        ELSE IF last'.op = "rollback" \/ last'.error = "CommitError"
        THEN [history_session_rollback(last'.uow) EXCEPT !.identity_map[last'.uow] = {}]
        ELSE IF last'.error = "DuplicateEntityError"
        THEN history_session_rollback(last'.uow)
        ELSE item_state_history

HistoryInputs ==
    {ItemStateHistory(h, i, "PENDING", "PROCESSING") : h \in HistoryIds, i \in ItemExecutionIds}
        \cup {ItemStateHistory(h, i, "PROCESSING", "COMPLETED") :
                  h \in HistoryIds, i \in ItemExecutionIds}

(* an update() that writes the entity's fields over the record *)
ItemStateHistory_overwrite(s, e) ==
    /\ Usable(s)
    /\ HistoryView(s, e.id).exists
    /\ item_state_history' =
          [item_state_history EXCEPT
              !.tx[s][e.id] = [touched |-> TRUE, row |-> ItemStateHistory_to_model(e)]]
    /\ last' = Outcome("item_state_history.update", s, e.id, 1)
    /\ UNCHANGED <<store_vars, uow_vars, original_versions, pending_update, heap,
                   next_seq, bus_vars, history_vars>>

(* item_state_history.create(entity): BaseRepository.create *)
ItemStateHistory_create(s, e) ==
    /\ Usable(s)
    /\ ~HistoryLockedByOther(s, e.id)
    /\ IF HistoryView(s, e.id).exists
       THEN \* primary key taken: IntegrityError, db.rollback(), DuplicateEntityError
            /\ tx' = session_rollback(s)
            /\ item_state_history' = history_session_rollback(s)
            /\ last' = Failure("item_state_history.create", s, e.id,
                               "DuplicateEntityError", 0, 0)
       ELSE IF ~ItemExecutionExists(s, e.item_execution_id)
       THEN \* foreign key: IntegrityError, db.rollback(), RepositoryError
            /\ tx' = session_rollback(s)
            /\ item_state_history' = history_session_rollback(s)
            /\ last' = Failure("item_state_history.create", s, e.id,
                               "RepositoryError", 0, 0)
       ELSE /\ item_state_history' =
                  [item_state_history EXCEPT
                      !.tx[s][e.id] = [touched |-> TRUE,
                                       row |-> ItemStateHistory_to_model(e)],
                      !.identity_map[s] = @ \cup {e.id}]
            /\ last' = Outcome("item_state_history.create", s, e.id, 1)
            /\ UNCHANGED tx
    /\ UNCHANGED <<rows, uow_vars, original_versions, pending_update, heap, next_seq,
                   bus_vars, history_vars>>

(* item_state_history.get(id): BaseRepository.get; the entity has no
   is_active, so the identity map answers only with include_soft_deleted *)
ItemStateHistory_get(s, h) ==
    /\ Usable(s)
    /\ IF HistoryView(s, h).exists
       THEN /\ item_state_history' =
                  [item_state_history EXCEPT !.identity_map[s] = @ \cup {h}]
            /\ last' = Outcome("item_state_history.get", s, h, 1)
       ELSE /\ last' = Outcome("item_state_history.get", s, h, 0)
            /\ UNCHANGED item_state_history
    /\ UNCHANGED <<store_vars, uow_vars, original_versions, pending_update, heap,
                   next_seq, bus_vars, history_vars>>

(* item_state_history.update(id, entity): raises NotImplementedError *)
ItemStateHistory_update(s, e) ==
    /\ Usable(s)
    /\ last' = Failure("item_state_history.update", s, e.id, "NotImplementedError", 0, 0)
    /\ UNCHANGED <<store_vars, uow_vars, original_versions, pending_update, heap,
                   next_seq, bus_vars, history_vars, item_state_history>>

(* item_state_history.delete(id, soft): raises NotImplementedError *)
ItemStateHistory_delete(s, h, soft) ==
    /\ Usable(s)
    /\ last' = [Failure("item_state_history.delete", s, h, "NotImplementedError", 0, 0)
                   EXCEPT !.soft = soft]
    /\ UNCHANGED <<store_vars, uow_vars, original_versions, pending_update, heap,
                   next_seq, bus_vars, history_vars, item_state_history>>

(* item_executions.delete(id, soft=False) by a scope that holds no baseline
   of the row: DELETE ... WHERE id, and the foreign key of the history
   records is ON DELETE CASCADE *)
ItemExecution_delete(s, i) ==
    /\ Usable(s)
    /\ \A h \in HistoryIds :
          HistoryLockedByOther(s, h) =>
              \A t \in UoWs \ {s} : item_state_history.tx[t][h].row.item_execution_id # i
    /\ IF ItemExecutionExists(s, i)
       THEN /\ item_state_history' =
                  [item_state_history EXCEPT
                      !.item_execution_deleted[s] = @ \cup {i},
                      !.tx[s] = [h \in HistoryIds |->
                                    IF /\ HistoryView(s, h).exists
                                       /\ HistoryView(s, h).item_execution_id = i
                                    THEN [touched |-> TRUE, row |-> NoRecord]
                                    ELSE @[h]]]
            /\ last' = Outcome("item_executions.delete", s, i, 1)
       ELSE /\ last' = Outcome("item_executions.delete", s, i, 0)
            /\ UNCHANGED item_state_history
    /\ UNCHANGED <<store_vars, uow_vars, original_versions, pending_update, heap,
                   next_seq, bus_vars, history_vars>>

(* an operation of the run repository or of the scope, to its session *)
Scoped(A) == A /\ history_follows_session

Next ==
    \/ Scoped(\E s \in UoWs : Enter(s))
    \/ Scoped(\E s \in UoWs : Construct(s))
    \/ Scoped(\E s \in UoWs, o \in Objs, op \in RunOps : EntityCall(s, o, op))
    \/ Scoped(\E s \in UoWs, o \in Objs : Deactivate(s, o))
    \/ Scoped(\E s \in UoWs, o \in Objs, a \in 1..NAutomations : Reassign(s, o, a))
    \/ Scoped(\E s \in UoWs, id \in Ids, incl \in BOOLEAN : Get(s, id, incl))
    \/ Scoped(\E s \in UoWs, o \in Objs : Create(s, o))
    \/ Scoped(\E s \in UoWs, o \in Objs, same_time \in BOOLEAN : UpdateRead(s, o, same_time))
    \/ Scoped(\E s \in UoWs, synchronized \in BOOLEAN : UpdateWrite(s, synchronized))
    \/ Scoped(\E s \in UoWs, id \in Ids, soft \in BOOLEAN, v \in 0..MaxVersion : Delete(s, id, soft, v))
    \/ Scoped(\E s \in UoWs, incl \in BOOLEAN, reversed \in BOOLEAN : List(s, incl, reversed))
    \/ Scoped(\E s \in UoWs, incl \in BOOLEAN : Count(s, incl))
    \/ Scoped(\E s \in UoWs, id \in Ids, incl \in BOOLEAN : Exists(s, id, incl))
    \/ Scoped(\E s \in UoWs, ok \in BOOLEAN : Commit(s, ok))
    \/ Scoped(\E s \in UoWs : Rollback(s))
    \/ Scoped(\E s \in UoWs, exc \in BOOLEAN, ok \in BOOLEAN : Exit(s, exc, ok))
    \/ Scoped(\E s \in UoWs, exc \in BOOLEAN, ok \in BOOLEAN : Transaction(s, exc, ok))
    \/ \E s \in UoWs, e \in HistoryInputs : ItemStateHistory_create(s, e)
    \/ \E s \in UoWs, h \in HistoryIds : ItemStateHistory_get(s, h)
    \/ \E s \in UoWs, e \in HistoryInputs : ItemStateHistory_update(s, e)
    \/ \E s \in UoWs, h \in HistoryIds, soft \in BOOLEAN : ItemStateHistory_delete(s, h, soft)
    \/ \E s \in UoWs, i \in ItemExecutionIds : ItemExecution_delete(s, i)

Spec == Init /\ [][Next /\ UNCHANGED <<steps, entity_vars>>]_vars

(* The sub-systems below run a subset of the operations, each operation
   counted against a budget of steps. *)
Within(budget, A) ==
    steps < budget /\ steps' = steps + 1 /\ UNCHANGED entity_vars /\ Scoped(A)

(* an operation of the history repository or on its parent table *)
StepHistory(A) ==
    steps < MaxSteps /\ steps' = steps + 1 /\ UNCHANGED entity_vars /\ A
Step(A) == Within(MaxSteps, A)
StepOCC(A) == Within(MaxStepsOCC, A)

(* Two scopes that load, change and write the runs concurrently. *)
NextOCC ==
    \/ StepOCC(\E s \in UoWs : Enter(s))
    \/ StepOCC(\E s \in UoWs, id \in Ids : Get(s, id, FALSE))
    \/ StepOCC(\E s \in UoWs, o \in Objs, op \in {"start", "cancel"} : EntityCall(s, o, op))
    \/ StepOCC(\E s \in UoWs, o \in Objs, same_time \in BOOLEAN : UpdateRead(s, o, same_time))
    \/ StepOCC(\E s \in UoWs, synchronized \in BOOLEAN : UpdateWrite(s, synchronized))
    \/ StepOCC(\E s \in UoWs, id \in Ids : Delete(s, id, TRUE, 0))
    \/ StepOCC(\E s \in UoWs, ok \in BOOLEAN : Commit(s, ok))

SpecOCC == Init /\ [][NextOCC]_vars

(* One scope, its entities and their events. *)
NextEvents ==
    \/ Step(Enter(1))
    \/ Step(Construct(1))
    \/ Step(\E o \in Objs, op \in RunOps : EntityCall(1, o, op))
    \/ Step(\E id \in Ids : Get(1, id, FALSE))
    \/ Step(\E o \in Objs : Create(1, o))
    \/ Step(\E id \in Ids : Delete(1, id, FALSE, 0))
    \/ Step(\E ok \in BOOLEAN : Commit(1, ok))
    \/ Step(Rollback(1))
    \/ Step(\E exc \in BOOLEAN, ok \in BOOLEAN : Exit(1, exc, ok))
    \/ Step(\E exc \in BOOLEAN, ok \in BOOLEAN : Transaction(1, exc, ok))

SpecEvents == Init /\ [][NextEvents]_vars

(* One scope and the writes of its repository. *)
NextWrites ==
    \/ Step(Enter(1))
    \/ Step(Construct(1))
    \/ Step(\E o \in Objs, op \in {"start", "cancel"} : EntityCall(1, o, op))
    \/ Step(\E o \in Objs : Deactivate(1, o))
    \/ Step(\E id \in Ids, incl \in BOOLEAN : Get(1, id, incl))
    \/ Step(\E o \in Objs : Create(1, o))
    \/ Step(\E o \in Objs, same_time \in BOOLEAN : UpdateRead(1, o, same_time))
    \/ Step(\E synchronized \in BOOLEAN : UpdateWrite(1, synchronized))
    \/ Step(\E id \in Ids, soft \in BOOLEAN, v \in 0..1 : Delete(1, id, soft, v))
    \/ Step(\E ok \in BOOLEAN : Commit(1, ok))

SpecWrites == Init /\ [][NextWrites]_vars

(* One scope that records item state transitions. *)
NextHistory ==
    \/ Step(Enter(1))
    \/ StepHistory(\E e \in HistoryInputs : ItemStateHistory_create(1, e))
    \/ StepHistory(\E h \in HistoryIds : ItemStateHistory_get(1, h))
    \/ StepHistory(\E e \in HistoryInputs : ItemStateHistory_update(1, e))
    \/ StepHistory(\E h \in HistoryIds, soft \in BOOLEAN : ItemStateHistory_delete(1, h, soft))
    \/ StepHistory(\E i \in ItemExecutionIds : ItemExecution_delete(1, i))
    \/ Step(\E ok \in BOOLEAN : Commit(1, ok))
    \/ Step(Rollback(1))

SpecHistory == Init /\ [][NextHistory]_vars

(* One scope that creates, reads, lists, counts and deletes runs. *)
NextDelete ==
    \/ Step(Enter(1))
    \/ Step(Construct(1))
    \/ Step(\E o \in Objs : EntityCall(1, o, "start"))
    \/ Step(\E o \in Objs : Create(1, o))
    \/ Step(\E id \in Ids, incl \in BOOLEAN : Get(1, id, incl))
    \/ Step(\E incl \in BOOLEAN, reversed \in BOOLEAN : List(1, incl, reversed))
    \/ Step(\E incl \in BOOLEAN : Count(1, incl))
    \/ Step(\E id \in Ids, incl \in BOOLEAN : Exists(1, id, incl))
    \/ Step(\E id \in Ids, soft \in BOOLEAN, v \in 0..2 : Delete(1, id, soft, v))
    \/ Step(\E ok \in BOOLEAN : Commit(1, ok))

SpecDelete == Init /\ [][NextDelete]_vars

(* One scope that loads runs, changes them and writes them back. *)
NextUpdate ==
    \/ Step(Enter(1))
    \/ Step(\E id \in Ids : Get(1, id, FALSE))
    \/ Step(\E o \in Objs, op \in RunOps : EntityCall(1, o, op))
    \/ Step(\E o \in Objs : Deactivate(1, o))
    \/ Step(\E o \in Objs, a \in 1..NAutomations : Reassign(1, o, a))
    \/ Step(\E o \in Objs, same_time \in BOOLEAN : UpdateRead(1, o, same_time))
    \/ Step(\E synchronized \in BOOLEAN : UpdateWrite(1, synchronized))
    \/ Step(\E ok \in BOOLEAN : Commit(1, ok))

SpecUpdate == Init /\ [][NextUpdate]_vars

(* One scope and an Event Bus of either mode whose handlers may raise. *)
InitBus ==
    /\ InitStore
    /\ event_bus \in {EventBus(use_async, raising) :
                         use_async \in BOOLEAN, raising \in SUBSET Handlers}
    /\ entity = Run(1)
    /\ call = NoCall
    /\ trail = Trail(Run(1))

NextBus ==
    \/ Step(Enter(1))
    \/ Step(Get(1, 1, FALSE))
    \/ Step(\E op \in {"start", "complete"} : EntityCall(1, 1, op))
    \/ Step(UpdateRead(1, 1, FALSE))
    \/ Step(UpdateWrite(1, TRUE))
    \/ Step(\E ok \in BOOLEAN : Commit(1, ok))
    \/ Step(\E exc \in BOOLEAN, ok \in BOOLEAN : Transaction(1, exc, ok))
    \/ Step(\E types \in EventLists : Dispatch(types))
    \/ Step(Worker_start)
    \/ Step(\E task \in event_bus.running : Worker_finish(task))
    \/ Step(\E wait \in BOOLEAN, kept \in SUBSET Range(event_bus.queue) : Shutdown(wait, kept))
    \/ Step(Shutdown_return)

SpecBus == InitBus /\ [][NextBus]_vars

(* One execution entity of any class, in any status a stored row can hold. *)
EntityInputs ==
    {[Run(1) EXCEPT !.status = st, !.automation_id = a] :
         st \in ExecutionStatus, a \in 1..NAutomations}
        \cup {BatchExecution(1, st) : st \in ExecutionStatus}
        \cup {OrchestrationInstance(1, st) : st \in ExecutionStatus}
        \cup {[ItemExecution(1, st, a, m) EXCEPT !.finished_at = f] :
                 st \in ExecutionStatus, a \in 0..MaxAttempts, m \in -1..MaxAttempts,
                 f \in BOOLEAN}

InitEntity ==
    /\ InitScope
    /\ entity \in EntityInputs
    /\ call = NoCall
    /\ trail = Trail(entity)

(* entity.op(): the entity afterwards and the error raised, if any *)
After(op) == Call(entity, op, Len(entity.events) + 1)
Called(op) == [op |-> op, before |-> entity.status, error |-> After(op).error]
Traced(op) == IF After(op).error.raised THEN trail
              ELSE [trail EXCEPT !.ops = Append(@, op)]

Start ==
    /\ entity' = After("start").ent
    /\ call' = Called("start")
    /\ trail' = Traced("start")
    /\ UNCHANGED <<scope_vars, steps>>

Complete ==
    /\ entity' = After("complete").ent
    /\ call' = Called("complete")
    /\ trail' = Traced("complete")
    /\ UNCHANGED <<scope_vars, steps>>

Fail ==
    /\ entity' = After("fail").ent
    /\ call' = Called("fail")
    /\ trail' = Traced("fail")
    /\ UNCHANGED <<scope_vars, steps>>

(* only Run has cancel() *)
Cancel ==
    /\ "cancel" \in Methods(entity.kind)
    /\ entity' = After("cancel").ent
    /\ call' = Called("cancel")
    /\ trail' = Traced("cancel")
    /\ UNCHANGED <<scope_vars, steps>>

NextEntity == Start \/ Complete \/ Fail \/ Cancel

SpecEntity == InitEntity /\ [][NextEntity]_vars

(* The status machine on its own: status.can_transition_to(new_status). *)
CanTransitionTo(new_status) ==
    /\ call' = [op |-> "can_transition_to", before |-> entity.status,
                new_status |-> new_status,
                result |-> can_transition_to(entity.status, new_status),
                error |-> NoError]
    /\ UNCHANGED <<scope_vars, steps, entity, trail>>

NextStatus == \E new_status \in ExecutionStatus : CanTransitionTo(new_status)

SpecStatus == InitEntity /\ [][NextStatus]_vars

(* ------------------------------- claims -------------------------------- *)

(* C1: a write by a scope whose view of the row is stale never changes the
   row: a scope writes an existing row only when the version it last loaded
   from the store is the version the store holds at the time of the write. *)
C1_StaleWriteNeverChangesRow ==
    [][\A s \in UoWs, i \in Ids :
          (/\ tx'[s][i] # tx[s][i]
           /\ tx'[s][i].touched
           /\ View(s, i).exists
           /\ loaded[s][i] # 0)
          => loaded[s][i] = View(s, i).version]_vars

(* C2: update() by a scope whose baseline for the row differs from the
   stored version raises ConcurrencyError carrying the baseline as
   expected_version and the stored version as actual_version, and leaves the
   store and the entity as they were. *)
C2_StaleUpdateRaises ==
    [][\A s \in UoWs, i \in Ids :
          (/\ last'.op \in {"update", "update_read"}
           /\ last'.uow = s /\ last'.id = i
           /\ ~pending_update[s].active
           /\ original_versions[s][i] # 0
           /\ View(s, i).exists
           /\ View(s, i).version # original_versions[s][i])
          => (/\ last'.error = "ConcurrencyError"
              /\ last'.expected_version = original_versions[s][i]
              /\ last'.actual_version = View(s, i).version
              /\ rows' = rows /\ tx' = tx /\ heap' = heap)]_vars

(* two scopes loaded version 1, one wrote and committed version 2, the
   other's update() was refused with expected 1 and actual 2 *)
C2_Witness ==
    /\ last.op = "update" /\ last.error = "ConcurrencyError"
    /\ last.expected_version = 1 /\ last.actual_version = 2
    /\ last.id \in Ids /\ last.uow \in UoWs
    /\ rows[last.id].version = 2
    /\ loaded[last.uow][last.id] = 1
    /\ \E t \in UoWs \ {last.uow} : loaded[t][last.id] = 2

(* C3: handlers run and events reach the Event Bus only in a step in which
   commit() committed the session's transaction, publishing its writes; a
   commit() whose session commit fails dispatches nothing. *)
C3_DispatchOnlyAfterCommit ==
    [][/\ (handled' # handled \/ dispatched' # dispatched)
             => (/\ last'.committed
                 /\ last'.uow \in UoWs
                 /\ rows' = session_commit(last'.uow))
       /\ (last'.error = "CommitError")
             => (handled' = handled /\ dispatched' = dispatched)]_vars

(* a commit succeeded and handlers have run *)
C3_Witness == last.committed /\ last.op = "commit" /\ Len(handled) > 0

(* C4 as stated: at a successful commit every event pending on an entity
   that was registered with the scope since its transaction began has been
   handed to the Event Bus. *)
C4_EveryTrackedEventDispatched ==
    [][last'.committed
          => \A o \in ever_tracked[last'.uow] :
                \A k \in DOMAIN heap[o].ent.events :
                   \E j \in DOMAIN dispatched' : dispatched'[j] = heap[o].ent.events[k]]_vars

(* C4, amended: at a successful commit every event pending on an entity the
   scope tracks at that moment is handed to the Event Bus exactly once, by
   this commit; and no event is ever handed over twice. *)
C4_TrackedEventsDispatchedOnce ==
    /\ [][last'.committed
             => \A en \in Range(tracked_entities[last'.uow]) :
                   \A k \in DOMAIN heap[en.obj].ent.events :
                      /\ Cardinality({j \in DOMAIN dispatched' :
                                         dispatched'[j] = heap[en.obj].ent.events[k]}) = 1
                      /\ \E j \in (Len(dispatched) + 1)..Len(dispatched') :
                            dispatched'[j] = heap[en.obj].ent.events[k]]_vars
    /\ [](\A i, j \in DOMAIN dispatched : i # j => dispatched[i].seq # dispatched[j].seq)

(* one commit handed over the events of two entities *)
C4_Witness ==
    /\ last.committed /\ Len(dispatched) = 2
    /\ dispatched[1].entity_id # dispatched[2].entity_id

(* C5 as stated: the handler invocations of one commit are in the order in
   which their events were registered. *)
C5_RegistrationOrder ==
    [][\A i, j \in (Len(handled) + 1)..Len(handled') :
          i < j => handled'[i].event.seq <= handled'[j].event.seq]_vars

(* C5, amended: the handler invocations of one commit are grouped by entity,
   the entities in the order in which the scope first tracked them; the
   events of one entity are in registration order. *)
C5_TrackingThenRegistrationOrder ==
    [][\A i, j \in (Len(handled) + 1)..Len(handled') :
          i < j =>
            LET a == handled'[i].event
                b == handled'[j].event
                entries == tracked_entities[last'.uow]
                pos(id) == CHOOSE k \in DOMAIN entries : entries[k].id = id
            IN IF a.entity_id = b.entity_id THEN a.seq <= b.seq
               ELSE pos(a.entity_id) < pos(b.entity_id)]_vars

(* a handler ran for a later-registered event of one entity before a handler
   for an earlier-registered event of another *)
C5_Witness ==
    /\ last.committed
    /\ \E i, j \in DOMAIN handled :
          /\ i < j
          /\ handled[i].event.seq > handled[j].event.seq
          /\ handled[i].event.entity_id # handled[j].event.entity_id

(* C6: an event that was pending on a tracked entity when its scope rolled
   back is never handed to the Event Bus. *)
C6_RolledBackEventsNeverDispatched ==
    \A k \in DOMAIN dispatched : dispatched[k].seq \notin discarded

(* C7 as stated: after a successful commit the stored row of every entity
   the scope tracked equals the entity's in-memory state at commit time. *)
C7_CommitPersistsTrackedEntities ==
    [][last'.committed
          => \A en \in Range(tracked_entities[last'.uow]) :
                rows'[en.id] = to_model(heap[en.obj].ent)]_vars

(* C7, amended: commit() writes no entity state of its own: it publishes
   exactly the writes the scope's repositories made since the transaction
   began and leaves every other row as it was.  It is create(), update() and
   a soft delete() that write: after each of them the tracked entity equals
   the row as the scope sees it. *)
C7_CommitPublishesRepositoryWrites ==
    [][/\ last'.committed
             => \A i \in Ids :
                   rows'[i] = IF tx[last'.uow][i].touched THEN tx[last'.uow][i].row
                              ELSE rows[i]
       /\ (/\ last'.op \in {"create", "update"}
           /\ last'.error = "" /\ tx' # tx)
             => to_model(heap'[last'.ret].ent) = tx'[last'.uow][last'.id].row
       /\ (/\ last'.op = "delete" /\ tx' # tx
           /\ tx'[last'.uow][last'.id].row.exists
           /\ identity_map[last'.uow][last'.id] # 0)
             => to_model(heap'[identity_map[last'.uow][last'.id]].ent)
                   = tx'[last'.uow][last'.id].row]_vars

(* a commit published an update of a row at version 2 while the entity, changed
   again after update(), is at version 3 in memory *)
C7_Witness ==
    /\ last.committed
    /\ \E o \in Objs :
          /\ heap[o].alloc
          /\ rows[heap[o].ent.id].exists
          /\ rows[heap[o].ent.id].version = 2
          /\ rows[heap[o].ent.id].status = "PROCESSING"
          /\ heap[o].ent.version = 3

(* C8: at a successful commit either every row the scope's repositories
   wrote since its transaction began is in the store as written, or the
   store is as it was. *)
C8_AllOrNothing ==
    [][last'.committed
          => \/ \A i \in Ids :
                   written[last'.uow][i].touched => rows'[i] = written[last'.uow][i].row
             \/ rows' = rows]_vars

(* C9: get(id) in a scope that tracks an instance for the id returns that
   instance whenever it returns an entity. *)
C9_GetReturnsTrackedInstance ==
    [][\A s \in UoWs, i \in Ids :
          (/\ last'.op = "get" /\ last'.uow = s /\ last'.id = i
           /\ last'.ret # 0
           /\ identity_map[s][i] # 0)
          => last'.ret = identity_map[s][i]]_vars

(* C10: a call of start / complete / fail / cancel on a Run, BatchExecution
   or ItemExecution either raises InvalidStateError naming the entity class,
   its id, the status it is in and the operation, and leaves the status as it
   is, or moves the status along an edge of the transition table; a status of
   COMPLETED, CANCELLED or SKIPPED never changes. *)
C10_TransitionOrInvalidState ==
    [][/\ IF call'.error.raised
          THEN /\ call'.error.entity_name = entity.kind
               /\ call'.error.entity_id = entity.id
               /\ call'.error.current_state = entity.status
               /\ \/ call'.error.operation = call'.op
                  \/ /\ call'.op = "start"
                     /\ call'.error.operation = "start (max attempts already reached)"
                  \/ /\ call'.op = "fail"
                     /\ call'.error.operation \in
                           {"transition to RETRYING", "transition to FAILED"}
               /\ entity'.status = entity.status
          ELSE entity'.status \in valid_transitions[entity.status]
       /\ entity.status \in {"COMPLETED", "CANCELLED", "SKIPPED"}
             => entity'.status = entity.status]_vars

(* cancel() on a completed Run was refused *)
C10_Witness ==
    /\ entity.kind = "Run" /\ entity.status = "COMPLETED"
    /\ call.op = "cancel" /\ call.error.raised
    /\ call.error.current_state = "COMPLETED"

(* C11: can_transition_to(from, to) is true for exactly the twelve pairs
   PENDING -> PROCESSING, CANCELLED, SKIPPED; PROCESSING -> COMPLETED, FAILED,
   RETRYING, CANCELLED; RETRYING -> PROCESSING, FAILED, CANCELLED;
   FAILED -> PENDING, RETRYING, and false for every other ordered pair of the
   seven statuses, every pair of a status with itself among them. *)
C11_TransitionTable ==
    call.op = "can_transition_to" =>
        (call.result <=>
            <<call.before, call.new_status>> \in
                {<<"PENDING", "PROCESSING">>, <<"PENDING", "CANCELLED">>,
                 <<"PENDING", "SKIPPED">>,
                 <<"PROCESSING", "COMPLETED">>, <<"PROCESSING", "FAILED">>,
                 <<"PROCESSING", "RETRYING">>, <<"PROCESSING", "CANCELLED">>,
                 <<"RETRYING", "PROCESSING">>, <<"RETRYING", "FAILED">>,
                 <<"RETRYING", "CANCELLED">>,
                 <<"FAILED", "PENDING">>, <<"FAILED", "RETRYING">>})

(* FAILED -> PENDING was asked for and allowed *)
C11_Witness ==
    /\ call.op = "can_transition_to"
    /\ call.before = "FAILED" /\ call.new_status = "PENDING"
    /\ call.result

(* C12: a start() of an ItemExecution that returns has raised attempt_count
   by exactly 1; a start() of an ItemExecution whose max_attempts is set and
   whose attempt_count has reached it raises InvalidStateError in every
   status and changes nothing. *)
C12_StartCountsAttempts ==
    [][(entity.kind = "ItemExecution" /\ call'.op = "start") =>
          /\ ~call'.error.raised =>
                entity'.attempt_count = entity.attempt_count + 1
          /\ (entity.max_attempts # -1 /\ entity.attempt_count >= entity.max_attempts)
                => (call'.error.raised /\ entity' = entity)]_vars

(* a start() brought attempt_count to max_attempts and the next one was refused *)
C12_Witness ==
    /\ entity.kind = "ItemExecution"
    /\ trail.ops = <<"start">>
    /\ entity.attempt_count = trail.created.attempt_count + 1
    /\ entity.attempt_count = entity.max_attempts
    /\ call.op = "start" /\ call.error.raised
    /\ call.error.operation = "start (max attempts already reached)"

(* C13: a fail() of an ItemExecution that returns leaves the status RETRYING
   when max_attempts is set and attempt_count is below it, and FAILED
   otherwise; the call sets finished_at exactly when that status is FAILED:
   finished_at is set after a failure for good and is left as it was by a
   failure that asks for a retry. *)
C13_FailTargetStatus ==
    [][(entity.kind = "ItemExecution" /\ call'.op = "fail" /\ ~call'.error.raised) =>
          /\ entity'.status =
                IF entity.max_attempts # -1 /\ entity.attempt_count < entity.max_attempts
                THEN "RETRYING" ELSE "FAILED"
          /\ entity'.status = "FAILED" => entity'.finished_at
          /\ entity'.status = "RETRYING" => entity'.finished_at = entity.finished_at]_vars

(* a failure with attempts left asked for a retry and left finished_at unset *)
C13_Witness ==
    /\ entity.kind = "ItemExecution"
    /\ call.op = "fail" /\ ~call.error.raised /\ call.before = "PROCESSING"
    /\ entity.status = "RETRYING" /\ ~entity.finished_at
    /\ entity.attempt_count < entity.max_attempts

(* C14: an ItemExecution constructed PENDING with attempt_count 0 and
   max_attempts = N >= 1 on which start() and fail() have succeeded in turn,
   k times each, has failed at most N times; if k < N it is RETRYING and
   can_retry() is true; if k = N it is FAILED, can_retry() is false and
   start() raises InvalidStateError. *)
C14_RetryLoopEnds ==
    LET ops == trail.ops
        k == Len(ops) \div 2
        N == entity.max_attempts
    IN (/\ entity.kind = "ItemExecution"
        /\ trail.created.status = "PENDING" /\ trail.created.attempt_count = 0
        /\ N >= 1
        /\ Len(ops) >= 2 /\ Len(ops) % 2 = 0
        /\ \A i \in DOMAIN ops : ops[i] = IF i % 2 = 1 THEN "start" ELSE "fail")
       => /\ k <= N
          /\ k < N => (entity.status = "RETRYING" /\ ItemExecution_can_retry(entity))
          /\ k = N => /\ entity.status = "FAILED"
                      /\ ~ItemExecution_can_retry(entity)
                      /\ ItemExecution_start(entity).error.raised

(* the second of two allowed attempts failed and a third start() was refused *)
C14_Witness ==
    /\ entity.kind = "ItemExecution" /\ entity.max_attempts = 2
    /\ trail.created.status = "PENDING" /\ trail.created.attempt_count = 0
    /\ trail.ops = <<"start", "fail", "start", "fail">>
    /\ entity.status = "FAILED"
    /\ call.op = "start" /\ call.error.raised

(* C15: complete() on a PENDING Run raises InvalidStateError and changes
   nothing; complete() on a PROCESSING Run returns, leaves the status
   COMPLETED, finished_at set and the version one higher, and registers one
   event, a RunCompleted with the Run's id and automation_id. *)
C15_RunComplete ==
    [][(entity.kind = "Run" /\ call'.op = "complete") =>
          /\ entity.status = "PENDING" => (call'.error.raised /\ entity' = entity)
          /\ entity.status = "PROCESSING" =>
                /\ ~call'.error.raised
                /\ entity'.status = "COMPLETED"
                /\ entity'.finished_at
                /\ entity'.version = entity.version + 1
                /\ Len(entity'.events) = Len(entity.events) + 1
                /\ SubSeq(entity'.events, 1, Len(entity.events)) = entity.events
                /\ LET event == entity'.events[Len(entity'.events)]
                   IN /\ event.type = "RunCompleted"
                      /\ event.entity_id = entity.id
                      /\ event.automation_id = entity.automation_id]_vars

(* a Run of automation 2 was started and completed *)
C15_Witness ==
    /\ entity.kind = "Run" /\ entity.automation_id = 2
    /\ trail.created.status = "PENDING" /\ trail.ops = <<"start", "complete">>
    /\ entity.status = "COMPLETED" /\ entity.version = 3
    /\ Len(entity.events) = 1 /\ entity.events[1].automation_id = 2

(* C16: a start / complete / fail / cancel of a Run, BatchExecution,
   ItemExecution or OrchestrationInstance that returns raises the version by
   exactly 1, so the version of an entity constructed at version 1 is 1 plus
   the number of its calls that returned. *)
C16_VersionCountsTransitions ==
    [][/\ ~call'.error.raised => entity'.version = entity.version + 1
       /\ entity'.version = trail'.created.version + Len(trail'.ops)
       /\ trail'.created.version = 1]_vars

(* an OrchestrationInstance was started and failed: version 3 *)
C16_Witness ==
    /\ entity.kind = "OrchestrationInstance"
    /\ trail.ops = <<"start", "fail">>
    /\ entity.version = 3

(* C17: a Run never moves into RETRYING or PENDING and never out of
   COMPLETED, FAILED or CANCELLED; every status change of a Run constructed
   PENDING is PENDING -> PROCESSING, PROCESSING -> COMPLETED,
   PROCESSING -> FAILED, PROCESSING -> CANCELLED, PENDING -> CANCELLED or
   PENDING -> SKIPPED. *)
C17_RunLifecycle ==
    [][(entity.kind = "Run" /\ entity'.status # entity.status) =>
          /\ entity'.status \notin {"RETRYING", "PENDING"}
          /\ entity.status \notin {"COMPLETED", "FAILED", "CANCELLED"}
          /\ trail.created.status = "PENDING" =>
                <<entity.status, entity'.status>> \in
                    {<<"PENDING", "PROCESSING">>, <<"PROCESSING", "COMPLETED">>,
                     <<"PROCESSING", "FAILED">>, <<"PROCESSING", "CANCELLED">>,
                     <<"PENDING", "CANCELLED">>, <<"PENDING", "SKIPPED">>}]_vars

(* a Run was started and failed, and could not be started again *)
C17_Witness ==
    /\ entity.kind = "Run" /\ trail.created.status = "PENDING"
    /\ trail.ops = <<"start", "fail">>
    /\ entity.status = "FAILED"
    /\ call.op = "start" /\ call.error.raised

(* C18: a call on an OrchestrationInstance either returns, and is then
   start() from PENDING to PROCESSING, complete() from PROCESSING to
   COMPLETED or fail() from PROCESSING to FAILED, or raises InvalidStateError
   and leaves the instance as it is; its status never leaves COMPLETED or
   FAILED and never becomes CANCELLED, SKIPPED or RETRYING. *)
C18_OrchestrationLifecycle ==
    [][entity.kind = "OrchestrationInstance" =>
          /\ IF call'.error.raised
             THEN entity' = entity
             ELSE <<call'.op, entity.status, entity'.status>> \in
                      {<<"start", "PENDING", "PROCESSING">>,
                       <<"complete", "PROCESSING", "COMPLETED">>,
                       <<"fail", "PROCESSING", "FAILED">>}
          /\ entity.status \in {"COMPLETED", "FAILED"} => entity'.status = entity.status
          /\ entity'.status # entity.status =>
                entity'.status \notin {"CANCELLED", "SKIPPED", "RETRYING"}]_vars

(* an instance was started and completed, and fail() was then refused *)
C18_Witness ==
    /\ entity.kind = "OrchestrationInstance"
    /\ trail.ops = <<"start", "complete">>
    /\ entity.status = "COMPLETED" /\ entity.duration_seconds
    /\ call.op = "fail" /\ call.error.raised
    /\ call.error.current_state = "COMPLETED"

(* C19: an update() of an entity none of whose updatable fields differs from
   the stored row, and whose version is the baseline, writes nothing: the
   rows, their versions included, are as they were. *)
C19_UnchangedUpdateIsNoOp ==
    [][\A s \in UoWs :
          (/\ pending_update[s].active
           /\ pending_update[s].fields \cap updatable_fields = {}
           /\ pending_update[s].values.version = pending_update[s].expected_version)
          => (tx' = tx /\ rows' = rows)]_vars

(* C20: an update() that writes finds the stored version equal to the
   baseline and leaves it exactly 1 higher, whatever version the entity
   carried; the entity it returns carries the stored version, which is the
   new baseline; an update() of the same row that follows a successful one in
   the same scope does not fail. *)
C20_UpdateBumpsStoredVersionOnce ==
    [][\A s \in UoWs :
          /\ (pending_update[s].active /\ last'.op = "update" /\ last'.uow = s) =>
                LET p == pending_update[s]
                    stored == IF tx'[s][p.id].touched THEN tx'[s][p.id].row
                                                      ELSE rows'[p.id]
                IN /\ last'.error = ""
                   /\ View(s, p.id).version = p.expected_version
                   /\ stored.version = p.expected_version + 1
                   /\ heap'[last'.ret].ent.version = p.expected_version + 1
                   /\ heap'[last'.ret].ent.id = p.id
                   /\ original_versions'[s][p.id] = p.expected_version + 1
          /\ (/\ last.op = "update" /\ last.error = "" /\ last.uow = s
              /\ last'.op \in {"update", "update_read"}
              /\ last'.uow = s /\ last'.id = last.id)
             => last'.error = ""]_vars

(* a Run loaded at version 1 and bumped twice in memory was written once:
   stored version, returned entity and baseline are all 2 *)
C20_Witness ==
    /\ last.op = "update" /\ last.error = "" /\ last.uow = 1 /\ last.ret # 0
    /\ heap[last.ret].ent.status = "CANCELLED"
    /\ heap[last.ret].ent.started_at
    /\ heap[last.ret].ent.version = 2
    /\ View(1, last.id).version = 2
    /\ View(1, last.id).status = "CANCELLED"
    /\ original_versions[1][last.id] = 2
    /\ tx[1][last.id].touched

(* C21 (as stated): after a successful update() every column of the stored
   row other than the id equals the value the entity held when update() was
   called, with version = baseline + 1, and the tracked instance holds the
   values of the stored row. *)
C21_StoredRowEqualsEntity ==
    [][\A s \in UoWs :
          (pending_update[s].active /\ last'.op = "update" /\ last'.error = "")
          => LET p == pending_update[s]
                 stored == IF tx'[s][p.id].touched THEN tx'[s][p.id].row ELSE rows'[p.id]
             IN /\ \A f \in DOMAIN stored \ {"exists", "version"} :
                       stored[f] = p.values[f]
                /\ stored.version = p.expected_version + 1
                /\ to_model(heap'[identity_map'[s][p.id]].ent) = stored]_vars

(* C21 (amended): after a successful update() every column in
   updatable_fields equals the value the entity held when update() was
   called, every other column keeps the value the row had, version is
   baseline + 1, and the tracked instance holds the values of the stored
   row. *)
C21_UpdatableColumnsWritten ==
    [][\A s \in UoWs :
          (pending_update[s].active /\ last'.op = "update" /\ last'.error = "")
          => LET p == pending_update[s]
                 before == View(s, p.id)
                 stored == IF tx'[s][p.id].touched THEN tx'[s][p.id].row ELSE rows'[p.id]
             IN /\ stored.exists
                /\ \A f \in updatable_fields : stored[f] = p.values[f]
                /\ \A f \in DOMAIN stored \ (updatable_fields \cup {"version"}) :
                       stored[f] = before[f]
                /\ stored.version = p.expected_version + 1
                /\ identity_map'[s][p.id] # 0
                /\ to_model(heap'[identity_map'[s][p.id]].ent) = stored]_vars

(* C21 witness: an update() has stored a started run at version 2; the
   tracked instance is the one it returned and holds the row's values. *)
C21_Witness ==
    /\ last.op = "update" /\ last.error = "" /\ last.ret # 0
    /\ LET s == last.uow
           stored == View(s, last.id)
       IN /\ written[s][last.id].touched
          /\ stored.status = "PROCESSING" /\ stored.started_at
          /\ stored.automation_id = 1
          /\ identity_map[s][last.id] = last.ret
          /\ to_model(heap[last.ret].ent) = stored
          /\ stored.version = 2

(* C22: update() of an id whose version baseline the repository does not
   hold raises ConcurrencyError with expected_version = -1, whether or not a
   row with that id exists, and leaves the store, the session's writes, the
   identity map, the baselines and the entity as they were. *)
C22_UntrackedUpdateRaises ==
    [][\A s \in UoWs, id \in Ids :
          (/\ ~pending_update[s].active
           /\ last'.op \in {"update", "update_read"} /\ last'.uow = s /\ last'.id = id
           /\ original_versions[s][id] = 0)
          => /\ last'.op = "update"
             /\ last'.error = "ConcurrencyError"
             /\ last'.expected_version = -1
             /\ UNCHANGED <<rows, tx, pending_update, loaded, written, original_versions,
                            identity_map, tracked_entities, heap>>]_vars

(* C22 witness: update() of a run that was constructed but never created,
   loaded or listed has raised ConcurrencyError with expected_version -1,
   and not the EntityNotFoundError a read of the store would have given. *)
C22_Witness ==
    /\ last.op = "update" /\ last.error = "ConcurrencyError"
    /\ last.expected_version = -1
    /\ ~View(last.uow, last.id).exists
    /\ original_versions[last.uow][last.id] = 0
    /\ loaded[last.uow][last.id] = 0

(* C23: a successful delete(id, soft=True) stores is_active = false and
   version + 1 and leaves the other columns alone; the next call of the same
   scope sees the round trip: get(id) finds nothing, get(id,
   include_soft_deleted=True) returns the entity with the stored values,
   exists/list/count leave the row out and take it in with
   include_soft_deleted=True. *)
C23_SoftDeleteRoundTrip ==
    [][/\ \A s \in UoWs, id \in Ids :
             (last'.op = "delete" /\ last'.soft /\ last'.error = "" /\ last'.ret = 1
              /\ last'.uow = s /\ last'.id = id)
             => (IF tx'[s][id].touched THEN tx'[s][id].row ELSE rows'[id])
                   = [View(s, id) EXCEPT !.is_active = FALSE, !.version = @ + 1]
       /\ \A s \in UoWs, id \in Ids :
             (last.op = "delete" /\ last.soft /\ last.error = "" /\ last.ret = 1
              /\ last.uow = s /\ last.id = id /\ last'.uow = s)
             => LET others(incl) == Cardinality(Matching(s, incl) \ {id})
                IN /\ (last'.op = "get" /\ last'.id = id)
                      => IF last'.include_soft_deleted
                         THEN /\ last'.ret # 0
                              /\ ~heap'[last'.ret].ent.is_active
                              /\ heap'[last'.ret].ent.id = id
                              /\ to_model(heap'[last'.ret].ent) = View(s, id)
                         ELSE last'.ret = 0
                   /\ (last'.op = "exists" /\ last'.id = id)
                      => (last'.ret = 1) = last'.include_soft_deleted
                   /\ last'.op = "list"
                      => (id \in Range(last'.found)) = last'.include_soft_deleted
                   /\ last'.op = "count"
                      => last'.ret = others(last'.include_soft_deleted)
                            + (IF last'.include_soft_deleted THEN 1 ELSE 0)]_vars

(* C23 witness: after a soft delete of a run stored at version 1, list with
   include_soft_deleted=True has returned the row, which is inactive at
   version 2, while the plain query matches nothing. *)
C23_Witness ==
    /\ last.op = "list" /\ last.include_soft_deleted
    /\ 1 \in Range(last.found)
    /\ View(last.uow, 1).exists /\ ~View(last.uow, 1).is_active
    /\ View(last.uow, 1).version = 2
    /\ rows[1].is_active /\ rows[1].version = 1
    /\ 1 \notin Matching(last.uow, FALSE)
    /\ identity_map[last.uow][1] # 0
    /\ ~heap[identity_map[last.uow][1]].ent.is_active

(* C24 (as stated): a soft delete deactivates a row only by a write guarded
   by version = expected version, so every soft delete that succeeds had an
   expected version and found the row at it. *)
C24_SoftDeleteAlwaysChecksVersion ==
    [][\A s \in UoWs, id \in Ids :
          (last'.op = "delete" /\ last'.soft /\ last'.error = "" /\ last'.ret = 1
           /\ last'.uow = s /\ last'.id = id)
          => /\ last'.expected_version # 0
             /\ View(s, id).version = last'.expected_version]_vars

(* C24 (amended): when an expected version is supplied or a baseline is
   held, a soft delete deactivates the row only if the stored version equals
   it, and on a different stored version it raises ConcurrencyError and
   leaves the row as it was; with neither, the write is keyed on the id
   alone and deactivates the row at whatever version it has. *)
C24_SoftDeleteChecksKnownVersion ==
    [][\A s \in UoWs, id \in Ids :
          (last'.op = "delete" /\ last'.soft /\ last'.uow = s /\ last'.id = id)
          => LET model == View(s, id)
                 after == IF tx'[s][id].touched THEN tx'[s][id].row ELSE rows'[id]
             IN /\ (last'.error = "" /\ last'.ret = 1)
                   => /\ model.exists
                      /\ last'.expected_version # 0
                            => model.version = last'.expected_version
                      /\ last'.expected_version = 0 => original_versions[s][id] = 0
                      /\ after = [model EXCEPT !.is_active = FALSE, !.version = @ + 1]
                /\ (model.exists /\ original_versions[s][id] # 0
                       /\ last'.expected_version = original_versions[s][id]
                       /\ model.version # original_versions[s][id])
                   => last'.error = "ConcurrencyError"
                /\ last'.error = "ConcurrencyError"
                   => /\ last'.expected_version # 0
                      /\ model.exists /\ model.version # last'.expected_version
                      /\ last'.actual_version = model.version
                      /\ after = model
                      /\ UNCHANGED <<rows, tx>>
                /\ (last'.error = "" /\ last'.ret = 0) => UNCHANGED <<rows, tx>>]_vars

(* C24 witness: a soft delete with expected version 2 has raised
   ConcurrencyError on an active row stored at version 1, which is still
   active at version 1. *)
C24_Witness ==
    /\ last.op = "delete" /\ last.soft /\ last.error = "ConcurrencyError"
    /\ last.expected_version = 2 /\ last.actual_version = 1
    /\ View(last.uow, last.id).exists
    /\ View(last.uow, last.id).is_active
    /\ View(last.uow, last.id).version = 1

(* C25: delete(id, soft=False) returns False and changes nothing when no row
   with that id exists; raises ConcurrencyError and leaves the row in place
   when the row exists at a version other than the expected one; and on
   success removes the row, drops the entity from the identity map and the
   tracked entities and forgets the version baseline. *)
C25_HardDelete ==
    [][\A s \in UoWs, id \in Ids :
          (last'.op = "delete" /\ ~last'.soft /\ last'.uow = s /\ last'.id = id)
          => LET model == View(s, id)
                 after == IF tx'[s][id].touched THEN tx'[s][id].row ELSE rows'[id]
             IN /\ ~model.exists
                   => /\ last'.error = "" /\ last'.ret = 0
                      /\ UNCHANGED <<rows, tx, identity_map, tracked_entities,
                                     original_versions, heap>>
                /\ (model.exists /\ last'.expected_version # 0
                       /\ model.version # last'.expected_version)
                   => /\ last'.error = "ConcurrencyError"
                      /\ after = model
                      /\ UNCHANGED <<rows, tx, identity_map, tracked_entities,
                                     original_versions, heap>>
                /\ (last'.error = "" /\ last'.ret = 1)
                   => /\ model.exists
                      /\ ~after.exists
                      /\ identity_map'[s][id] = 0
                      /\ ~HasKey(tracked_entities'[s], id)
                      /\ original_versions'[s][id] = 0
                /\ last'.error \in {"", "ConcurrencyError"}
                /\ last'.error = "ConcurrencyError" => last'.expected_version # 0]_vars

(* C25 witness: a hard delete has removed a row that the scope had loaded:
   the scope no longer sees the row, tracks no entity for the id and holds
   no baseline, while an instance of that id is still in the caller's
   hands. *)
C25_Witness ==
    /\ last.op = "delete" /\ ~last.soft /\ last.error = "" /\ last.ret = 1
    /\ ~View(last.uow, last.id).exists
    /\ rows[last.id].exists
    /\ identity_map[last.uow][last.id] = 0
    /\ original_versions[last.uow][last.id] = 0
    /\ \E o \in Objs : heap[o].alloc /\ heap[o].ent.id = last.id
                        /\ o \in ever_tracked[last.uow]

(* C26 (as stated): a history record that is in the table stays in the
   table with the fields it has, whatever the repositories do. *)
C26_HistoryRecordsNeverRemoved ==
    [][\A h \in HistoryIds :
          item_state_history.rows[h].exists
          => item_state_history'.rows[h] = item_state_history.rows[h]]_vars

(* C26 (amended): update() and delete() of the history repository raise
   NotImplementedError and touch nothing; a record in the table is removed
   (or gives its id to a new record) only by a transaction that hard-deletes
   its item execution; what the acting scope sees of a record changes only with that
   delete or with a rollback of its session, which takes the scope back to
   the committed table. *)
C26_HistoryRemovedOnlyWithItemExecution ==
    [][/\ last'.op \in {"item_state_history.update", "item_state_history.delete"}
          => /\ last'.error = "NotImplementedError"
             /\ UNCHANGED <<item_state_history, rows, tx, identity_map,
                            tracked_entities, original_versions, heap>>
       /\ \A h \in HistoryIds :
             (/\ item_state_history.rows[h].exists
              /\ item_state_history'.rows[h] # item_state_history.rows[h])
             => /\ item_state_history.rows[h].item_execution_id
                      \in item_state_history.item_execution
                /\ item_state_history.rows[h].item_execution_id
                      \notin item_state_history'.item_execution
       /\ \A s \in UoWs, h \in HistoryIds :
             (/\ last'.uow = s
              /\ HistoryView(s, h).exists
              /\ HistoryViewOf(item_state_history', s, h) # HistoryView(s, h))
             => \/ /\ last'.op = "item_executions.delete"
                   /\ last'.id = HistoryView(s, h).item_execution_id
                   /\ ~HistoryViewOf(item_state_history', s, h).exists
                \/ /\ \/ last'.op = "rollback"
                      \/ last'.error \in {"CommitError", "DuplicateEntityError",
                                          "RepositoryError"}
                   /\ item_state_history.tx[s][h].touched
                   /\ HistoryViewOf(item_state_history', s, h)
                         = item_state_history.rows[h]]_vars

(* C26 witness: delete() of a committed history record has raised
   NotImplementedError and the record is in the table as it was written. *)
C26_Witness ==
    /\ last.op = "item_state_history.delete"
    /\ last.error = "NotImplementedError"
    /\ item_state_history.rows[last.id].exists
    /\ item_state_history.rows[last.id].new_status = "COMPLETED"
    /\ HistoryView(last.uow, last.id) = item_state_history.rows[last.id]

(* C27: when commit() has returned or raised, the identity map and the
   tracked entities of the Unit of Work are empty; when the session's commit
   failed, the session was rolled back (none of its writes reached the
   store, none is left pending) and the error raised is the session's. *)
C27_CommitClearsTracking ==
    [][\A s \in UoWs :
          (last'.op = "commit" /\ last'.uow = s)
          => /\ \A id \in Ids : identity_map'[s][id] = 0
             /\ tracked_entities'[s] = <<>>
             /\ last'.error \in {"", "CommitError"}
             /\ last'.error = "" <=> last'.committed
             /\ last'.error = "CommitError"
                   => /\ rows' = rows
                      /\ \A id \in Ids : ~tx'[s][id].touched
                      /\ dispatched' = dispatched]_vars

(* C27 witness: a commit() has failed while the scope tracked an entity
   with a pending event and held an uncommitted write; the maps are empty,
   nothing is pending and the store has no row of the write. *)
C27_Witness ==
    /\ last.op = "commit" /\ last.error = "CommitError"
    /\ \A id \in Ids : identity_map[last.uow][id] = 0
    /\ tracked_entities[last.uow] = <<>>
    /\ discarded # {}
    /\ \E o \in Objs : /\ heap[o].alloc /\ heap[o].owner = last.uow
                        /\ ~rows[heap[o].ent.id].exists
                        /\ heap[o].ent.events # <<>>
    /\ \A id \in Ids : ~tx[last.uow][id].touched

(* C29: rollback() leaves the Unit of Work with an empty identity map, no
   tracked entities and no repository handle, and the session with no
   pending write; a commit() that follows it raises nothing, dispatches no
   event and changes no row. *)
C29_RollbackResetsScope ==
    [][\A s \in UoWs :
          /\ (last'.op = "rollback" /\ last'.uow = s)
             => /\ \A id \in Ids : identity_map'[s][id] = 0
                /\ tracked_entities'[s] = <<>>
                /\ ~repositories'[s]
                /\ \A id \in Ids : ~tx'[s][id].touched
                /\ rows' = rows
                /\ dispatched' = dispatched
          /\ (last.op = "rollback" /\ last.uow = s /\ last'.op = "commit" /\ last'.uow = s)
             => /\ last'.error = ""
                /\ dispatched' = dispatched
                /\ handled' = handled
                /\ rows' = rows]_vars

(* C29 witness: a commit() has returned on a scope whose repository handles
   are unset and whose session is open; an event that was pending at the
   rollback is still on its entity and nothing was dispatched. *)
C29_Witness ==
    /\ last.op = "commit" /\ last.committed
    /\ session[last.uow] /\ ~repositories[last.uow]
    /\ discarded # {}
    /\ dispatched = <<>>
    /\ \E o \in Objs : heap[o].alloc /\ heap[o].ent.events # <<>>
    /\ \A id \in Ids : identity_map[last.uow][id] = 0

(* C28: transaction() commits when its block returned and only then; when
   the block raised it rolls back and the block's exception reaches the
   caller; after the rollback no write of the session is in the store or
   pending, so no other scope can see one. *)
C28_TransactionCommitsOrRollsBack ==
    [][\A s \in UoWs :
          (last'.via = "transaction" /\ last'.uow = s)
          => IF last'.raised
             THEN /\ last'.op = "rollback" /\ ~last'.committed
                  /\ last'.error = "BlockError"
                  /\ rows' = rows
                  /\ \A id \in Ids : ~tx'[s][id].touched
                  /\ \A t \in UoWs \ {s}, id \in Ids :
                        (IF tx'[t][id].touched THEN tx'[t][id].row ELSE rows'[id])
                           = View(t, id)
                  /\ dispatched' = dispatched
             ELSE /\ last'.op = "commit"
                  /\ last'.committed <=> last'.error = ""
                  /\ last'.committed => rows' = session_commit(s)
                  /\ ~last'.committed
                        => /\ last'.error = "CommitError"
                           /\ rows' = rows
                  /\ \A id \in Ids : ~tx'[s][id].touched]_vars

(* C28 witness: the block of a transaction() raised after it had created a
   run; the run is in no row of the store and in no pending write, and the
   entity is still in the caller's hands. *)
C28_Witness ==
    /\ last.via = "transaction" /\ last.raised /\ last.op = "rollback"
    /\ \E o \in Objs : /\ heap[o].alloc /\ heap[o].owner = last.uow
                        /\ heap[o].ent.id # 1
                        /\ ~rows[heap[o].ent.id].exists
                        /\ \A t \in UoWs : ~View(t, heap[o].ent.id).exists
    /\ \A id \in Ids : ~tx[last.uow][id].touched
    /\ \E id \in Ids : loaded[last.uow][id] # 0 /\ ~rows[id].exists

(* C30 (as stated): a successful commit() drains and dispatches the pending
   events of every instance that was registered with the scope at any point
   since its transaction began, whether or not the scope still tracks it. *)
C30_EveryRegisteredEntityDrained ==
    [][last'.committed
          => \A o \in ever_tracked[last'.uow] :
                /\ heap'[o].ent.events = <<>>
                /\ \A k \in DOMAIN heap[o].ent.events :
                      \E j \in (Len(dispatched) + 1)..Len(dispatched') :
                         dispatched'[j] = heap[o].ent.events[k]]_vars

(* C30 (amended): a successful commit() drains and dispatches the pending
   events of the instances the scope tracks when commit() is called; every
   other instance, one that was unregistered or replaced included, keeps its
   pending events and none of them is dispatched. *)
C30_OnlyTrackedEntitiesDrained ==
    [][last'.committed
          => LET tracked == {en.obj : en \in Range(tracked_entities[last'.uow])}
                 handed == {dispatched'[j] : j \in (Len(dispatched) + 1)..Len(dispatched')}
             IN /\ \A o \in tracked :
                      /\ heap'[o].ent.events = <<>>
                      /\ Range(heap[o].ent.events) \subseteq handed
                /\ \A o \in Objs \ tracked :
                      /\ heap'[o].ent.events = heap[o].ent.events
                      /\ Range(heap[o].ent.events) \cap handed = {}
                /\ handed = UNION {Range(heap[o].ent.events) : o \in tracked}]_vars

(* C30 witness: a commit() has succeeded and removed row 1 by a hard delete;
   the instance of run 1 that the scope had loaded still carries the event
   it registered, and the event was not dispatched. *)
C30_Witness ==
    /\ last.committed
    /\ ~rows[1].exists
    /\ \E o \in Objs :
          /\ heap[o].alloc /\ heap[o].ent.id = 1
          /\ heap[o].ent.events # <<>>
          /\ \A k \in DOMAIN heap[o].ent.events :
                \A j \in DOMAIN dispatched : dispatched[j] # heap[o].ent.events[k]

(* ------------------- claims C36..C40: execution entities ---------------- *)
ExecutionKinds == {"Run", "BatchExecution", "ItemExecution"}

(* the number of times op occurs among the calls that returned *)
Succeeded(op) == Cardinality({i \in DOMAIN trail.ops : trail.ops[i] = op})

CreatedPending ==
    /\ entity.kind \in ExecutionKinds
    /\ trail.created.status = "PENDING"
    /\ ~trail.created.started_at /\ ~trail.created.finished_at

(* C36: a start/complete/fail/cancel call of a Run, BatchExecution or
   ItemExecution that raises InvalidStateError leaves the entity exactly as
   it was: status, version, attempt_count, started_at, finished_at,
   error_message, error_summary, cancellation_reason and the pending events. *)
C36_RaiseLeavesEntityUnchanged ==
    [][(entity.kind \in ExecutionKinds /\ call'.error.raised) => entity' = entity]_vars

(* C37: for an ItemExecution created with attempt_count 0 and max_attempts
   set to N, attempt_count never exceeds N in any state reached through
   start/complete/fail, and at most N calls of start() have returned. *)
C37_AttemptsWithinLimit ==
    (/\ entity.kind = "ItemExecution"
     /\ trail.created.attempt_count = 0
     /\ entity.max_attempts # -1)
        => /\ entity.attempt_count <= entity.max_attempts
           /\ Succeeded("start") <= entity.max_attempts
           /\ entity.max_attempts = trail.created.max_attempts

(* C37 witness: an item created PENDING with no attempt made and a limit of
   MaxAttempts has been started MaxAttempts times, retried in between, and
   its next start() was refused at the limit. *)
C37_Witness ==
    /\ entity.kind = "ItemExecution"
    /\ trail.created.status = "PENDING"
    /\ trail.created.attempt_count = 0
    /\ entity.max_attempts = MaxAttempts
    /\ Succeeded("start") = MaxAttempts
    /\ Succeeded("fail") >= MaxAttempts - 1
    /\ entity.attempt_count = MaxAttempts
    /\ call.op = "start" /\ call.error.raised

(* C38: once the status of an ItemExecution is FAILED no start(), complete()
   or fail() changes it, whatever attempt_count and max_attempts are. *)
C38_FailedIsFinal ==
    [][(entity.kind = "ItemExecution" /\ entity.status = "FAILED")
          => entity'.status = "FAILED"]_vars

(* C38 (amended): start() and complete() never change the status of a FAILED
   ItemExecution; fail() changes it only when max_attempts is set and
   attempt_count is below it, and then to RETRYING.  An item that became
   FAILED through its own operations has no attempt left and stays FAILED. *)
C38_FailedLeftOnlyForRetry ==
    [][(entity.kind = "ItemExecution" /\ entity.status = "FAILED")
          => \/ entity'.status = "FAILED" /\ call'.error.raised
             \/ /\ call'.op = "fail" /\ ~call'.error.raised
                /\ ItemExecution_can_retry(entity)
                /\ entity'.status = "RETRYING"]_vars

(* C38 witness: an item loaded in FAILED with an attempt left was failed
   again and is now RETRYING. *)
C38_Witness ==
    /\ entity.kind = "ItemExecution"
    /\ trail.created.status = "FAILED"
    /\ trail.created.attempt_count < trail.created.max_attempts
    /\ trail.ops = <<"fail">>
    /\ call.op = "fail" /\ call.before = "FAILED" /\ ~call.error.raised
    /\ entity.status = "RETRYING"

(* C39: for a Run, BatchExecution or ItemExecution created in PENDING and
   changed only through its operations, finished_at is set exactly when the
   status is COMPLETED, FAILED, CANCELLED or SKIPPED, and started_at is set
   exactly when a start() has returned. *)
C39_TimestampsFollowStatus ==
    CreatedPending
        => /\ entity.finished_at <=> is_finished(entity.status)
           /\ entity.started_at <=> Succeeded("start") >= 1

(* C39 witness: an item created PENDING was started, failed into RETRYING
   (finished_at unset), started again and failed for good (finished_at set). *)
C39_Witness ==
    /\ CreatedPending
    /\ entity.kind = "ItemExecution"
    /\ trail.ops = <<"start", "fail", "start", "fail">>
    /\ entity.status = "FAILED"
    /\ entity.finished_at /\ entity.started_at

(* C40: a Run created in PENDING registers no event while it is PENDING or
   PROCESSING and exactly one once it is COMPLETED, FAILED or CANCELLED:
   RunCompleted, RunFailed or RunCancelled, matching the status. *)
C40_RunRegistersOneEvent ==
    (CreatedPending /\ entity.kind = "Run")
        => /\ Len(entity.events) <= 1
           /\ entity.status \in {"PENDING", "PROCESSING"} => entity.events = <<>>
           /\ entity.status \in {"COMPLETED", "FAILED", "CANCELLED"}
                 => /\ Len(entity.events) = 1
                    /\ entity.events[1].type =
                          (CASE entity.status = "COMPLETED" -> "RunCompleted"
                             [] entity.status = "FAILED"    -> "RunFailed"
                             [] entity.status = "CANCELLED" -> "RunCancelled")
                    /\ entity.events[1].entity_id = entity.id
           /\ entity.status \in {"PENDING", "PROCESSING", "COMPLETED", "FAILED", "CANCELLED"}

(* C40 witness: a Run was cancelled while PENDING, carries its one
   RunCancelled event, and a later call was refused without adding one. *)
C40_Witness ==
    /\ CreatedPending /\ entity.kind = "Run"
    /\ trail.ops = <<"cancel">>
    /\ entity.status = "CANCELLED"
    /\ Len(entity.events) = 1 /\ entity.events[1].type = "RunCancelled"
    /\ call.op # "cancel" /\ call.error.raised

(* ------------- claim C34: update() of an entity obtained from get() ----- *)
(* C34: within one Unit of Work, with no other scope writing the row, an
   update() of an entity the scope obtained from get() and still tracks never
   raises ConcurrencyError, whatever entity operations and further get()
   calls for the same id came before it. *)
C34_OwnUpdateNeverConflicts ==
    [][(/\ last'.op = "update"
        /\ has_entity(last'.uow, last'.id)
        /\ \A id \in Ids : rows'[id] = rows[id] /\ ~LockedByOther(last'.uow, id))
          => last'.error # "ConcurrencyError"]_vars

(* ----------------------- claims C31..C33, C35: Event Bus ---------------- *)
(* the invocations and the events that the step added *)
NewlyHandled == SubSeq(handled', Len(handled) + 1, Len(handled'))
NewlyDispatched == SubSeq(dispatched', Len(dispatched) + 1, Len(dispatched'))

(* C31: in synchronous mode dispatch(events) has invoked, when it returns or
   raises, every handler registered for the type of every event exactly
   once, the events in list order and the handlers in registration order. *)
C31_EveryPairInvokedOnce ==
    [][(~event_bus.use_async /\ last'.op \in {"dispatch", "commit"})
          => NewlyHandled = dispatch(NewlyDispatched)]_vars

(* C35: when commit() raises, the transaction was not committed and none of
   the writes of the scope is in the store. *)
C35_RaisingCommitCommitsNothing ==
    [][(last'.op = "commit" /\ last'.error # "")
          => \A id \in Ids :
                tx[last'.uow][id].touched => rows'[id] # tx[last'.uow][id].row]_vars

(* the number of times the pair was invoked *)
Invocations(h, task) == Cardinality({i \in DOMAIN h : h[i] = task})

(* C32: in asynchronous mode an exception raised by a handler never reaches
   dispatch() or commit(): no handler runs on the caller's thread;
   a handler that raises takes nothing else with it: the queued work stays
   queued, the other running work goes on, every accepted pair is invoked,
   queued or cancelled, and a worker is free again; and the store, the
   committed rows and the open transactions, is left as it was. *)
C32_HandlerFailureIsolated ==
    [][event_bus.use_async =>
          /\ last'.op \in {"dispatch", "commit"}
                => last'.error # "HandlerError" /\ handled' = handled
          /\ event_bus'.failed # event_bus.failed
                => /\ event_bus'.queue = event_bus.queue
                   /\ event_bus.running \ event_bus'.running
                         = event_bus'.failed \ event_bus.failed
                   /\ event_bus'.running \subseteq event_bus.running
                   /\ Cardinality(event_bus'.running) < MaxWorkers
                   /\ event_bus'.submitted \subseteq
                         Range(handled') \cup Range(event_bus'.queue)
                             \cup event_bus'.cancelled
                   /\ handled' = handled
                   /\ rows' = rows /\ tx' = tx
                   /\ last'.error = ""]_vars

(* C32 witness: a commit() handed the RunCompleted event of run 1 to an
   asynchronous bus; the first handler raised, its exception is held by its
   future, and a worker went on to call the second handler. *)
C32_Witness ==
    /\ event_bus.use_async
    /\ last.op = "worker"
    /\ \E o \in Objs : /\ heap[o].alloc /\ heap[o].ent.status = "COMPLETED"
                       /\ heap[o].ent.events = <<>>
    /\ Len(dispatched) = 1 /\ dispatched[1].type = "RunCompleted"
    /\ Len(handled) = 2
    /\ event_bus.failed = {handled[1]}
    /\ event_bus.running = {handled[2]}
    /\ rows[1].exists

(* C33: in asynchronous mode every dispatch() that returns has had each of
   its (event, handler) pairs accepted by the executor, and when a
   shutdown(wait=True) that follows returns, every accepted pair has been
   invoked exactly once, in whatever order, and no work is queued, running,
   cancelled or held in the futures. *)
C33_ShutdownWaitsForAllWork ==
    [][event_bus.use_async =>
          /\ (last'.op \in {"dispatch", "commit"} /\ last'.error = "")
                => event_bus'.submitted =
                      event_bus.submitted \cup Range(dispatch(NewlyDispatched))
          /\ (event_bus.shutdown = "waiting" /\ event_bus'.shutdown = "done")
                => /\ \A task \in event_bus'.submitted : Invocations(handled', task) = 1
                   /\ Len(handled') = Cardinality(event_bus'.submitted)
                   /\ event_bus'.queue = <<>>
                   /\ event_bus'.running = {}
                   /\ event_bus'.futures = {}
                   /\ event_bus'.cancelled = {}]_vars

(* C33 witness: two events were dispatched, their two pairs - one of them
   with a handler that raises - ran on the workers, and shutdown(wait=True)
   has returned. *)
C33_Witness ==
    /\ event_bus.use_async
    /\ last.op = "shutdown" /\ event_bus.shutdown = "done"
    /\ Len(dispatched) = 2
    /\ Cardinality(event_bus.submitted) = 2
    /\ Len(handled) = 2
    /\ event_bus.failed # {}
    /\ drained(event_bus)

====
